---- MODULE Spec2Model ----
(***************************************************************************)
(* Model of @rumenx/sitemap: the Sitemap record store (Sitemap.ts over     *)
(* Model.ts), the SitemapIndex store, the DataValidator rule engine and    *)
(* the URL / date utilities they consult.                                  *)
(*                                                                         *)
(* JavaScript values are represented as follows.                           *)
(*   - a string is a TLA+ string; concatenation is \o;                     *)
(*   - an optional scalar is a tagged value [kind, s, t]: Undefined,       *)
(*     Str(s), Num(n) or DateObj(t);                                       *)
(*   - a number n stands for n/10 (tenths), so 5 is 0.5 and 10 is 1.0;     *)
(*   - a Date holds its getTime() value: an instant, or NaNTime for an     *)
(*     Invalid Date; instants are whole days counted from 2024-01-01Z;     *)
(*   - an optional array or object is <<>> when undefined and <<v>> when   *)
(*     present;                                                            *)
(*   - objects live in a heap (reference -> record): an array holds        *)
(*     references, and a shallow copy of an array shares them.             *)
(***************************************************************************)
EXTENDS Integers, Sequences, FiniteSets, TLC

\* ------------------------------------------------------------- bounds
\* Most records the store holds (add and addItem are not offered beyond it).
MaxStore == 2
\* The clock runs over the instants 0..MaxTime.
MaxTime == 2
\* Longest list handed to addItem / resetSitemaps.
MaxBatch == 2

\* -------------------------------------------------- JavaScript values
NaNTime == -1

Undefined == [kind |-> "undefined", s |-> "", t |-> 0]

Str(s) == [kind |-> "string", s |-> s, t |-> 0]

Num(n) == [kind |-> "number", s |-> "", t |-> n]

DateObj(t) == [kind |-> "date", s |-> "", t |-> t]

InvalidDateObj == DateObj(NaNTime)

\* JavaScript truthiness of a tagged value (`if (v)`).
Truthy(v) ==
    CASE v.kind = "undefined" -> FALSE
      [] v.kind = "string" -> v.s # ""
      [] v.kind = "number" -> v.t # 0
      [] OTHER -> TRUE

Instants == 0..MaxTime

Range(seq) == {seq[i] : i \in DOMAIN seq}

\* Array.prototype.join over strings.
RECURSIVE Join(_, _)
Join(strs, sep) ==
    IF strs = <<>> THEN ""
    ELSE IF Len(strs) = 1 THEN strs[1]
    ELSE strs[1] \o sep \o Join(Tail(strs), sep)

\* Concatenation of a sequence of sequences, in order.
RECURSIVE Flatten(_)
Flatten(seqs) ==
    IF seqs = <<>> THEN <<>> ELSE Head(seqs) \o Flatten(Tail(seqs))

\* ------------------------------------------------ platform: WHATWG URL
\* The absolute URL strings of the model, as `new URL(s)` parses them.
AbsoluteUrls ==
    { [src |-> "https://example.com/a", protocol |-> "https:",
       hostname |-> "example.com", pathname |-> "/a", hash |-> ""],
      [src |-> "https://example.com", protocol |-> "https:",
       hostname |-> "example.com", pathname |-> "/", hash |-> ""],
      [src |-> "https://example.com/", protocol |-> "https:",
       hostname |-> "example.com", pathname |-> "/", hash |-> ""],
      [src |-> "https://example.com/a#top", protocol |-> "https:",
       hostname |-> "example.com", pathname |-> "/a", hash |-> "#top"],
      [src |-> "https://example.com/b", protocol |-> "https:",
       hostname |-> "example.com", pathname |-> "/b", hash |-> ""],
      [src |-> "https://example.com/b#sec", protocol |-> "https:",
       hostname |-> "example.com", pathname |-> "/b", hash |-> "#sec"],
      [src |-> "https://example.com/invalid-url", protocol |-> "https:",
       hostname |-> "example.com", pathname |-> "/invalid-url", hash |-> ""],
      [src |-> "https://example.com/img.png", protocol |-> "https:",
       hostname |-> "example.com", pathname |-> "/img.png", hash |-> ""],
      [src |-> "https://example.com/a&b", protocol |-> "https:",
       hostname |-> "example.com", pathname |-> "/a&b", hash |-> ""],
      [src |-> "https://example.com/modified", protocol |-> "https:",
       hostname |-> "example.com", pathname |-> "/modified", hash |-> ""],
      [src |-> "ftp://example.com/f", protocol |-> "ftp:",
       hostname |-> "example.com", pathname |-> "/f", hash |-> ""] }

\* The relative references of the model: the path and fragment they carry.
RelativeRefs ==
    { [src |-> "/b", pathname |-> "/b", hash |-> ""],
      [src |-> "/b#sec", pathname |-> "/b", hash |-> "#sec"],
      [src |-> "invalid-url", pathname |-> "/invalid-url", hash |-> ""] }

URLFailure ==
    [ok |-> FALSE, protocol |-> "", hostname |-> "", pathname |-> "", hash |-> ""]

\* new URL(s): the parsed URL, or a failure when the constructor throws.
URLParse(s) ==
    IF \E e \in AbsoluteUrls : e.src = s
    THEN LET e == CHOOSE e \in AbsoluteUrls : e.src = s
         IN [ok |-> TRUE, protocol |-> e.protocol, hostname |-> e.hostname,
             pathname |-> e.pathname, hash |-> e.hash]
    ELSE URLFailure

\* new URL(s, base): an absolute s stands for itself, the empty string for
\* the base, a relative reference takes the base's scheme and host.
URLParseBase(s, base) ==
    LET b == URLParse(base)
    IN IF ~b.ok THEN URLFailure
       ELSE IF URLParse(s).ok THEN URLParse(s)
       ELSE IF s = "" THEN b
       ELSE IF \E e \in RelativeRefs : e.src = s
       THEN LET e == CHOOSE e \in RelativeRefs : e.src = s
            IN [ok |-> TRUE, protocol |-> b.protocol, hostname |-> b.hostname,
                pathname |-> e.pathname, hash |-> e.hash]
       ELSE URLFailure

\* URL.prototype.toString(): the serialised href.
Href(u) == u.protocol \o "//" \o u.hostname \o u.pathname \o u.hash

\* ---------------------------------------------------- UrlValidator.ts
MaxUrlLength == 2048

isValidUrl(url) ==
    IF url = "" THEN FALSE
    ELSE LET urlObj == URLParse(url)
         IN IF ~urlObj.ok THEN FALSE
            ELSE IF urlObj.protocol \notin {"http:", "https:"} THEN FALSE
            ELSE IF urlObj.hostname = "" THEN FALSE
            ELSE IF Len(url) > MaxUrlLength THEN FALSE
            ELSE TRUE

\* Mutant of normalizeUrl: a string that is not a valid URL comes back empty.
normalizeUrlEmptyOnInvalid(url) ==
    IF ~isValidUrl(url) THEN ""
    ELSE LET urlObj == URLParse(url)
             noHash == [urlObj EXCEPT !.hash = ""]
         IN Href(noHash)

normalizeUrl(url) ==
    IF ~isValidUrl(url) THEN url
    ELSE LET urlObj == URLParse(url)
             noHash == [urlObj EXCEPT !.hash = ""]
             fixed == IF noHash.pathname = "" \/ noHash.pathname = "/"
                      THEN [noHash EXCEPT !.pathname = "/"]
                      ELSE noHash
         IN Href(fixed)

resolveUrl(url, baseUrl) ==
    IF url = "" THEN url
    ELSE IF isValidUrl(url) THEN url
    ELSE LET resolved == URLParseBase(url, baseUrl)
         IN IF resolved.ok THEN Href(resolved) ELSE url

\* -------------------------------------------------- platform: Date
\* Date.prototype.toISOString() of the instant t.
ToISOString(t) == "2024-01-0" \o ToString(t + 1) \o "T00:00:00.000Z"

\* The date-only spelling of the instant t, which Date parses to t as well.
DateOnlyString(t) == "2024-01-0" \o ToString(t + 1)

\* new Date(s).getTime(): the instant, or NaNTime when s does not parse.
DateParse(s) ==
    IF \E t \in Instants : s = ToISOString(t) \/ s = DateOnlyString(t)
    THEN CHOOSE t \in Instants : s = ToISOString(t) \/ s = DateOnlyString(t)
    ELSE NaNTime

\* --------------------------------------------------------- DateUtils.ts
\* formatDate: [threw, value]; value is the result or the error message.
formatDate(date) ==
    IF date.kind = "string"
    THEN IF DateParse(date.s) = NaNTime
         THEN [threw |-> TRUE, value |-> "Invalid date string: " \o date.s]
         ELSE [threw |-> FALSE, value |-> ToISOString(DateParse(date.s))]
    ELSE IF date.kind # "date"
    THEN [threw |-> TRUE, value |-> "Date must be a Date object or ISO string"]
    ELSE IF date.t = NaNTime
    THEN [threw |-> TRUE, value |-> "Invalid Date object"]
    ELSE [threw |-> FALSE, value |-> ToISOString(date.t)]

isValidDate(dateString) == DateParse(dateString) # NaNTime

\* Mutant of isValidLastModDate: `<` for `<=`.
isValidLastModDateStrict(date, clock) ==
    LET time == IF date.kind = "string" THEN DateParse(date.s) ELSE date.t
    IN time # NaNTime /\ time < clock

\* isValidLastModDate at clock value `clock`: dateObj <= now, false on NaN.
isValidLastModDate(date, clock) ==
    LET time == IF date.kind = "string" THEN DateParse(date.s) ELSE date.t
    IN time # NaNTime /\ time <= clock

\* ------------------------------------------------------ DataValidator.ts
VALID_FREQUENCIES ==
    <<"always", "hourly", "daily", "weekly", "monthly", "yearly", "never">>

\* A ValidationError (the offending value, which only repeats the field's
\* content, is not carried).
Err(type, field, message) == [type |-> type, field |-> field, message |-> message]

\* errors.map(error => ({...error, field: prefix + error.field}))
PrefixField(errors, prefix) ==
    [k \in DOMAIN errors |-> [errors[k] EXCEPT !.field = prefix \o @]]

\* A number in tenths lies in [0.0, 1.0].
isValidPriority(priority) ==
    priority.kind = "number" /\ priority.t >= 0 /\ priority.t <= 10

\* DataValidator.isValidDate: a Date by its time value, a string by parsing.
ValidatorIsValidDate(date) ==
    IF date.kind = "date" THEN date.t # NaNTime ELSE isValidDate(date.s)

isValidChangeFreq(freq) == freq \in Range(VALID_FREQUENCIES)

\* Number.isInteger on a number in tenths.
IsInteger(n) == n % 10 = 0

validateImageItem(image) ==
    IF image.url = ""
    THEN <<Err("required", "image.url", "Image URL is required")>>
    ELSE IF ~isValidUrl(image.url)
    THEN <<Err("url", "image.url", "Image URL is not valid")>>
    ELSE <<>>

validateVideoItem(video) ==
    (IF video.title = ""
     THEN <<Err("required", "video.title", "Video title is required")>>
     ELSE <<>>)
    \o
    (IF video.description = ""
     THEN <<Err("required", "video.description", "Video description is required")>>
     ELSE <<>>)
    \o
    (IF video.thumbnail_url = ""
     THEN <<Err("required", "video.thumbnail_url", "Video thumbnail URL is required")>>
     ELSE IF ~isValidUrl(video.thumbnail_url)
     THEN <<Err("url", "video.thumbnail_url", "Video thumbnail URL is not valid")>>
     ELSE <<>>)
    \o
    (IF video.duration.kind # "undefined"
        /\ (video.duration.t < 0 \/ ~IsInteger(video.duration.t))
     THEN <<Err("format", "video.duration",
                "Video duration must be a positive integer (seconds)")>>
     ELSE <<>>)
    \o
    (IF video.rating.kind # "undefined"
        /\ (video.rating.t < 0 \/ video.rating.t > 50)
     THEN <<Err("format", "video.rating", "Video rating must be between 0.0 and 5.0")>>
     ELSE <<>>)

validateTranslationItem(translation) ==
    (IF translation.language = ""
     THEN <<Err("required", "translation.language", "Translation language is required")>>
     ELSE <<>>)
    \o
    (IF translation.url = ""
     THEN <<Err("required", "translation.url", "Translation URL is required")>>
     ELSE IF ~isValidUrl(translation.url)
     THEN <<Err("url", "translation.url", "Translation URL is not valid")>>
     ELSE <<>>)

validateAlternateItem(alternate) ==
    IF alternate.url = ""
    THEN <<Err("required", "alternate.url", "Alternate URL is required")>>
    ELSE IF ~isValidUrl(alternate.url)
    THEN <<Err("url", "alternate.url", "Alternate URL is not valid")>>
    ELSE <<>>

validateGoogleNewsItem(news) ==
    (IF news.sitename = ""
     THEN <<Err("required", "googlenews.sitename", "Google News sitename is required")>>
     ELSE <<>>)
    \o
    (IF news.language = ""
     THEN <<Err("required", "googlenews.language", "Google News language is required")>>
     ELSE <<>>)
    \o
    (IF ~Truthy(news.publication_date)
     THEN <<Err("required", "googlenews.publication_date",
                "Google News publication date is required")>>
     ELSE IF ~ValidatorIsValidDate(news.publication_date)
     THEN <<Err("date", "googlenews.publication_date",
                "Google News publication date is not valid")>>
     ELSE <<>>)

\* items.forEach((x, index) => errors.push(...validateX(x) prefixed name[index].))
NestedErrors(errorLists, name) ==
    Flatten([k \in DOMAIN errorLists |->
               PrefixField(errorLists[k], name \o "[" \o ToString(k - 1) \o "].")])

\* validateItem, lines 635-650: the location rule.
LocErrors(item) ==
    IF item.loc = ""
    THEN <<Err("required", "loc", "URL (loc) is required")>>
    ELSE IF ~isValidUrl(item.loc)
    THEN <<Err("url", "loc", "URL (loc) is not valid")>>
    ELSE <<>>

\* validateItem, lines 652-660: the priority rule.
PriorityErrors(item) ==
    IF item.priority.kind # "undefined" /\ ~isValidPriority(item.priority)
    THEN <<Err("priority", "priority", "Priority must be a number between 0.0 and 1.0")>>
    ELSE <<>>

\* validateItem, lines 662-679: the lastmod rule, read at clock value `clock`.
LastmodErrors(item, clock) ==
    IF item.lastmod.kind # "undefined"
    THEN IF ~ValidatorIsValidDate(item.lastmod)
         THEN <<Err("date", "lastmod", "Last modification date is not valid")>>
         ELSE IF ~isValidLastModDate(item.lastmod, clock)
         THEN <<Err("date", "lastmod", "Last modification date cannot be in the future")>>
         ELSE <<>>
    ELSE <<>>

\* validateItem, lines 681-689: the changefreq rule.
ChangefreqErrors(item) ==
    IF item.changefreq.kind # "undefined" /\ ~isValidChangeFreq(item.changefreq.s)
    THEN <<Err("format", "changefreq",
               "Change frequency must be one of: " \o Join(VALID_FREQUENCIES, ", "))>>
    ELSE <<>>

\* validateItem, lines 691-743: images, videos, translations, alternates, news.
NestedItemErrors(item) ==
    (IF item.images # <<>>
     THEN NestedErrors([k \in DOMAIN item.images[1] |-> validateImageItem(item.images[1][k])],
                       "images") ELSE <<>>)
    \o
    (IF item.videos # <<>>
     THEN NestedErrors([k \in DOMAIN item.videos[1] |-> validateVideoItem(item.videos[1][k])],
                       "videos") ELSE <<>>)
    \o
    (IF item.translations # <<>>
     THEN NestedErrors([k \in DOMAIN item.translations[1] |-> validateTranslationItem(item.translations[1][k])],
                       "translations")
     ELSE <<>>)
    \o
    (IF item.alternates # <<>>
     THEN NestedErrors([k \in DOMAIN item.alternates[1] |-> validateAlternateItem(item.alternates[1][k])],
                       "alternates")
     ELSE <<>>)
    \o
    (IF item.googlenews # <<>>
     THEN validateGoogleNewsItem(item.googlenews[1]) ELSE <<>>)

\* Mutant of validateItem: it returns at the first rule that reports.
validateItemStopsAtFirst(item, clock) ==
    IF LocErrors(item) # <<>> THEN LocErrors(item)
    ELSE IF PriorityErrors(item) # <<>> THEN PriorityErrors(item)
    ELSE IF LastmodErrors(item, clock) # <<>> THEN LastmodErrors(item, clock)
    ELSE IF ChangefreqErrors(item) # <<>> THEN ChangefreqErrors(item)
    ELSE IF NestedItemErrors(item) # <<>> THEN <<NestedItemErrors(item)[1]>>
    ELSE <<>>

\* validateItem at clock value `clock` (the clock is read by the lastmod rule).
validateItem(item, clock) ==
    LocErrors(item) \o PriorityErrors(item) \o LastmodErrors(item, clock)
    \o ChangefreqErrors(item) \o NestedItemErrors(item)

\* errors.map(error => `${error.field}: ${error.message}`).join(', ')
ErrorMessages(errors) ==
    Join([k \in DOMAIN errors |-> errors[k].field \o ": " \o errors[k].message], ", ")

\* ---------------------------------------------------------------- state
VARIABLES
    config,     \* Model.config of the Sitemap (fixed at construction)
    items,      \* Model.items: the array of record references
    heap,       \* the record objects: reference -> record
    view,       \* the array a caller last obtained from getItems()
    idxConfig,  \* SitemapIndex.config
    idxItems,   \* SitemapIndex.items
    now,        \* the clock read by `new Date()`
    call,       \* the last call made: operation, input, outcome
    namespaces  \* the namespaces objects configurations refer to: object -> prefixes

vars == <<config, items, heap, view, idxConfig, idxItems, now, call, namespaces>>

\* The object literal `{}` of DEFAULT_CONFIG.namespaces: one object, created
\* when the module is loaded.
DefaultNamespaces == "DEFAULT_CONFIG.namespaces"

\* The namespaces objects when the module has been loaded: the one of
\* DEFAULT_CONFIG, empty.
NoNamespaces == [o \in {DefaultNamespaces} |-> {}]

\* Model.ts DEFAULT_CONFIG; the namespaces field holds a reference.
DEFAULT_CONFIG ==
    [escaping |-> TRUE, validate |-> TRUE, maxItems |-> 50000,
     baseUrl |-> "", pretty |-> FALSE, stylesheet |-> "",
     namespaces |-> DefaultNamespaces]

\* SitemapIndex.DEFAULT_CONFIG.
INDEX_DEFAULT_CONFIG ==
    [validate |-> TRUE, escaping |-> TRUE, pretty |-> TRUE,
     baseUrl |-> "", stylesheet |-> "", maxSitemaps |-> 50000]

\* The max-items threshold the modelled stores are constructed with.
CfgMaxItems == 1

BaseUrls == {"", "https://example.com"}

\* A SitemapItem with only its location set.
ItemOf(loc) ==
    [loc |-> loc, lastmod |-> Undefined, priority |-> Undefined,
     changefreq |-> Undefined, title |-> Undefined, images |-> <<>>,
     videos |-> <<>>, translations |-> <<>>, alternates |-> <<>>,
     googlenews |-> <<>>]

\* SitemapAddOptions with nothing set (the default `options = {}`).
NoOptions ==
    [title |-> Undefined, images |-> <<>>, videos |-> <<>>,
     translations |-> <<>>, alternates |-> <<>>, googlenews |-> <<>>]

\* The records an array of references denotes.
Content(refs, hp) == [i \in DOMAIN refs |-> hp[refs[i]]]

\* A reference no live object uses.
Fresh(hp) == IF DOMAIN hp = {} THEN 1
             ELSE (CHOOSE r \in DOMAIN hp : \A q \in DOMAIN hp : q <= r) + 1

\* References are opaque: after each call the live objects (those reachable
\* from the store or from the caller's array) are renumbered in order of
\* first occurrence and the unreachable ones are dropped.
Canon(its, vw, hp) ==
    LET all == its \o vw
        live == Range(all)
        FirstPos(r) == CHOOSE i \in DOMAIN all :
                          all[i] = r /\ \A j \in 1..(i - 1) : all[j] # r
        Rank(r) == Cardinality({q \in live : FirstPos(q) <= FirstPos(r)})
    IN [items |-> [i \in DOMAIN its |-> Rank(its[i])],
        view |-> [i \in DOMAIN vw |-> Rank(vw[i])],
        heap |-> [k \in 1..Cardinality(live) |->
                    hp[CHOOSE r \in live : Rank(r) = k]]]

\* The store and the caller's array after a call left them as (its, vw, hp).
SetMemory(its, vw, hp) ==
    \E c \in {Canon(its, vw, hp)} :
        items' = c.items /\ view' = c.view /\ heap' = c.heap

\* The record of a call: what was asked, at which clock value, on which
\* store content and configuration, and how it ended (result, or the message of the Error).
Call(op, input, threw, message, result) ==
    [op |-> op, input |-> input, clock |-> now, pre |-> Content(items, heap),
     cfg |-> config, threw |-> threw, message |-> message, result |-> result]

\* ------------------------------------------------------------ Model.ts
\* Mutant of ModelAddItem: unshift instead of push.
ModelAddItemFront(its, ref) == <<ref>> \o its

\* Model.addItem: this.items.push(item).
ModelAddItem(its, ref) == Append(its, ref)

\* Model.getItems: [...this.items], a new array of the same references.
ModelGetItems(its) == [i \in DOMAIN its |-> its[i]]

\* Model.clear: this.items = [].
ModelClear == <<>>

ModelGetItemCount(its) == Len(its)

\* Mutant of ModelShouldSplit: `>` for `>=`.
ModelShouldSplitStrict(its, cfg) == Len(its) > cfg.maxItems

ModelShouldSplit(its, cfg) == Len(its) >= cfg.maxItems

\* ---------------------------------------------------------- Sitemap.ts
\* Mutant of NormalizeAndResolve: a valid absolute URL is kept as it is given.
NormalizeAndResolveKeepsInput(url, baseUrl) ==
    IF baseUrl # "" /\ ~isValidUrl(url)
    THEN resolveUrl(url, baseUrl)
    ELSE url

\* The URL handling shared by add, addItem and addSitemap.
NormalizeAndResolve(url, baseUrl) ==
    LET normalizedUrl == normalizeUrl(url)
    IN IF baseUrl # "" /\ ~isValidUrl(normalizedUrl)
       THEN resolveUrl(url, baseUrl)
       ELSE normalizedUrl

\* Mutant of BuildItem: a Date is stored as its date-only spelling.
BuildItemDateOnly(url, lastmod, priority, changefreq, options, cfg) ==
    LET base == [loc |-> NormalizeAndResolve(url, cfg.baseUrl),
                 lastmod |-> Undefined, priority |-> priority,
                 changefreq |-> changefreq, title |-> options.title,
                 images |-> options.images, videos |-> options.videos,
                 translations |-> options.translations,
                 alternates |-> options.alternates,
                 googlenews |-> options.googlenews]
        formatted == formatDate(lastmod)
    IN IF lastmod.kind = "undefined"
       THEN [threw |-> FALSE, message |-> "", item |-> base]
       ELSE IF lastmod.kind = "date"
       THEN IF formatted.threw
            THEN [threw |-> TRUE, message |-> formatted.value, item |-> base]
            ELSE [threw |-> FALSE, message |-> "",
                  item |-> [base EXCEPT !.lastmod = Str(DateOnlyString(lastmod.t))]]
       ELSE [threw |-> FALSE, message |-> "",
             item |-> [base EXCEPT !.lastmod = lastmod]]

\* Sitemap.add, lines 59-84: the item built from the arguments, or the
\* Error formatDate throws while it is built.
BuildItem(url, lastmod, priority, changefreq, options, cfg) ==
    LET base == [loc |-> NormalizeAndResolve(url, cfg.baseUrl),
                 lastmod |-> Undefined, priority |-> priority,
                 changefreq |-> changefreq, title |-> options.title,
                 images |-> options.images, videos |-> options.videos,
                 translations |-> options.translations,
                 alternates |-> options.alternates,
                 googlenews |-> options.googlenews]
        formatted == formatDate(lastmod)
    IN IF lastmod.kind = "undefined"
       THEN [threw |-> FALSE, message |-> "", item |-> base]
       ELSE IF lastmod.kind = "date"
       THEN IF formatted.threw
            THEN [threw |-> TRUE, message |-> formatted.value, item |-> base]
            ELSE [threw |-> FALSE, message |-> "",
                  item |-> [base EXCEPT !.lastmod = Str(formatted.value)]]
       ELSE [threw |-> FALSE, message |-> "",
             item |-> [base EXCEPT !.lastmod = lastmod]]

\* Mutant of Add: the item is stored before it is validated.
AddStoresFirst(url, lastmod, priority, changefreq, options) ==
    \E built \in {BuildItem(url, lastmod, priority, changefreq, options, config)} :
    \E errors \in {validateItem(built.item, now)} :
    \E ref \in {Fresh(heap)} :
    LET input == [url |-> url, lastmod |-> lastmod, priority |-> priority,
                  changefreq |-> changefreq, options |-> options]
    IN /\ IF built.threw
          THEN /\ call' = Call("add", <<input>>, TRUE, built.message, <<>>)
               /\ UNCHANGED <<items, heap, view>>
          ELSE /\ SetMemory(ModelAddItem(items, ref), view,
                            (ref :> built.item) @@ heap)
               /\ IF config.validate /\ Len(errors) > 0
                  THEN call' = Call("add", <<input>>, TRUE,
                                    "Validation failed: " \o ErrorMessages(errors), <<>>)
                  ELSE call' = Call("add", <<input>>, FALSE, "", <<>>)
       /\ UNCHANGED <<config, idxConfig, idxItems, now, namespaces>>

\* Mutant of Add: validation runs whatever config.validate says.
AddAlwaysValidates(url, lastmod, priority, changefreq, options) ==
    \E built \in {BuildItem(url, lastmod, priority, changefreq, options, config)} :
    \E errors \in {validateItem(built.item, now)} :
    \E ref \in {Fresh(heap)} :
    LET input == [url |-> url, lastmod |-> lastmod, priority |-> priority,
                  changefreq |-> changefreq, options |-> options]
    IN /\ IF built.threw
          THEN /\ call' = Call("add", <<input>>, TRUE, built.message, <<>>)
               /\ UNCHANGED <<items, heap, view>>
          ELSE IF Len(errors) > 0
          THEN /\ call' = Call("add", <<input>>, TRUE,
                               "Validation failed: " \o ErrorMessages(errors), <<>>)
               /\ UNCHANGED <<items, heap, view>>
          ELSE /\ call' = Call("add", <<input>>, FALSE, "", <<>>)
               /\ SetMemory(ModelAddItem(items, ref), view,
                            (ref :> built.item) @@ heap)
       /\ UNCHANGED <<config, idxConfig, idxItems, now, namespaces>>

\* Sitemap.add(url, lastmod, priority, changefreq, options).
Add(url, lastmod, priority, changefreq, options) ==
    \E built \in {BuildItem(url, lastmod, priority, changefreq, options, config)} :
    \E errors \in {validateItem(built.item, now)} :
    \E ref \in {Fresh(heap)} :
    LET input == [url |-> url, lastmod |-> lastmod, priority |-> priority,
                  changefreq |-> changefreq, options |-> options]
    IN /\ IF built.threw
          THEN /\ call' = Call("add", <<input>>, TRUE, built.message, <<>>)
               /\ UNCHANGED <<items, heap, view>>
          ELSE IF config.validate /\ Len(errors) > 0
          THEN /\ call' = Call("add", <<input>>, TRUE,
                               "Validation failed: " \o ErrorMessages(errors), <<>>)
               /\ UNCHANGED <<items, heap, view>>
          ELSE /\ call' = Call("add", <<input>>, FALSE, "", <<>>)
               /\ SetMemory(ModelAddItem(items, ref), view,
                            (ref :> built.item) @@ heap)
       /\ UNCHANGED <<config, idxConfig, idxItems, now, namespaces>>

\* Sitemap.addItem, lines 110-125: one input record after normalisation
\* and date formatting, or the Error formatDate throws.
ProcessItem(item, cfg) ==
    LET processedItem == [item EXCEPT !.loc = NormalizeAndResolve(item.loc, cfg.baseUrl)]
        formatted == formatDate(item.lastmod)
    IN IF item.lastmod.kind = "date"
       THEN IF formatted.threw
            THEN [threw |-> TRUE, message |-> formatted.value, item |-> processedItem]
            ELSE [threw |-> FALSE, message |-> "",
                  item |-> [processedItem EXCEPT !.lastmod = Str(formatted.value)]]
       ELSE [threw |-> FALSE, message |-> "", item |-> processedItem]

\* Mutant of AddItemLoop: each record is stored before it is validated.
RECURSIVE AddItemLoopStoresFirst(_, _, _, _, _)
AddItemLoopStoresFirst(itemsArray, its, hp, cfg, clock) ==
    IF itemsArray = <<>>
    THEN [items |-> its, heap |-> hp, threw |-> FALSE, message |-> ""]
    ELSE LET processed == ProcessItem(Head(itemsArray), cfg)
             errors == validateItem(processed.item, clock)
             ref == Fresh(hp)
         IN IF processed.threw
            THEN [items |-> its, heap |-> hp, threw |-> TRUE,
                  message |-> processed.message]
            ELSE IF cfg.validate /\ Len(errors) > 0
            THEN [items |-> ModelAddItem(its, ref),
                  heap |-> (ref :> processed.item) @@ hp, threw |-> TRUE,
                  message |-> "Validation failed for " \o processed.item.loc
                              \o ": " \o ErrorMessages(errors)]
            ELSE AddItemLoopStoresFirst(Tail(itemsArray), ModelAddItem(its, ref),
                                        (ref :> processed.item) @@ hp, cfg, clock)

\* The loop of Sitemap.addItem over the rest of the list: the store it
\* leaves and the Error that ended it, if any.
RECURSIVE AddItemLoop(_, _, _, _, _)
AddItemLoop(itemsArray, its, hp, cfg, clock) ==
    IF itemsArray = <<>>
    THEN [items |-> its, heap |-> hp, threw |-> FALSE, message |-> ""]
    ELSE LET processed == ProcessItem(Head(itemsArray), cfg)
             errors == validateItem(processed.item, clock)
             ref == Fresh(hp)
         IN IF processed.threw
            THEN [items |-> its, heap |-> hp, threw |-> TRUE,
                  message |-> processed.message]
            ELSE IF cfg.validate /\ Len(errors) > 0
            THEN [items |-> its, heap |-> hp, threw |-> TRUE,
                  message |-> "Validation failed for " \o processed.item.loc
                              \o ": " \o ErrorMessages(errors)]
            ELSE AddItemLoop(Tail(itemsArray), ModelAddItem(its, ref),
                             (ref :> processed.item) @@ hp, cfg, clock)

\* Mutant of AddItem: the records are stored without being validated.
AddItemUnvalidated(itemsArray, isArray) ==
    \E done \in {AddItemLoop(itemsArray, items, heap,
                              [config EXCEPT !.validate = FALSE], now)} :
       /\ call' = Call("addItem", itemsArray, done.threw, done.message, <<>>)
       /\ SetMemory(done.items, view, done.heap)
       /\ UNCHANGED <<config, idxConfig, idxItems, now, namespaces>>

\* Sitemap.addItem(items): `itemsArray` is the list given, or the one-element
\* list of the single record given (isArray tells which).
AddItem(itemsArray, isArray) ==
    \E done \in {AddItemLoop(itemsArray, items, heap, config, now)} :
       /\ call' = Call("addItem", itemsArray, done.threw, done.message, <<>>)
       /\ SetMemory(done.items, view, done.heap)
       /\ UNCHANGED <<config, idxConfig, idxItems, now, namespaces>>

\* Sitemap.clear().
Clear ==
    /\ call' = Call("clear", <<>>, FALSE, "", <<>>)
    /\ SetMemory(ModelClear, view, heap)
    /\ UNCHANGED <<config, idxConfig, idxItems, now, namespaces>>

\* The predicates handed to removeItems in the model.
Predicates == {"withLastmod", "invalidLoc", "first"}

Holds(predicate, item, index) ==
    CASE predicate = "withLastmod" -> item.lastmod.kind # "undefined"
      [] predicate = "invalidLoc" -> ~isValidUrl(item.loc)
      [] OTHER -> index = 1

\* items.filter(item => !predicate(item)): the kept references, in order.
RECURSIVE Filter(_, _, _, _)
Filter(refs, hp, predicate, index) ==
    IF index > Len(refs) THEN <<>>
    ELSE (IF Holds(predicate, hp[refs[index]], index) THEN <<>> ELSE <<refs[index]>>)
         \o Filter(refs, hp, predicate, index + 1)

\* Mutant of ReAdd: the kept records are added back last to first.
ReAddReversed(its, refs) == its \o [k \in DOMAIN refs |-> refs[Len(refs) + 1 - k]]

\* filteredItems.forEach(item => this.model.addItem(item)).
RECURSIVE ReAdd(_, _)
ReAdd(its, refs) ==
    IF refs = <<>> THEN its ELSE ReAdd(ModelAddItem(its, Head(refs)), Tail(refs))

\* Sitemap.removeItems(predicate).
RemoveItems(predicate) ==
    \E filteredItems \in {Filter(ModelGetItems(items), heap, predicate, 1)} :
       /\ call' = Call("removeItems", <<predicate>>, FALSE, "", <<>>)
       /\ SetMemory(ReAdd(ModelClear, filteredItems), view, heap)
       /\ UNCHANGED <<config, idxConfig, idxItems, now, namespaces>>

\* Mutant of ValidateAll: the index prefix counts from one.
ValidateAllOneBased(its, hp, clock) ==
    Flatten([k \in DOMAIN its |->
               PrefixField(validateItem(hp[its[k]], clock),
                           "item[" \o ToString(k) \o "].")])

\* Sitemap.validate() at clock value `clock`: the errors of every stored
\* record, each field prefixed with item[index].
ValidateAll(its, hp, clock) ==
    Flatten([k \in DOMAIN its |->
               PrefixField(validateItem(hp[its[k]], clock),
                           "item[" \o ToString(k - 1) \o "].")])

Validate ==
    /\ call' = Call("validate", <<>>, FALSE, "",
                    ValidateAll(ModelGetItems(items), heap, now))
    /\ UNCHANGED <<config, items, heap, view, idxConfig, idxItems, now, namespaces>>

\* Sitemap.getItems(), getItemCount() and shouldSplit() as functions of the
\* state.
GetItems == Content(ModelGetItems(items), heap)

GetItemCount == ModelGetItemCount(items)

ShouldSplit == ModelShouldSplit(items, config)

\* Sitemap.toTXT(): the locations, one per line (joined by newlines).
ToTXTLines == [i \in DOMAIN ModelGetItems(items) |-> heap[ModelGetItems(items)[i]].loc]

ToTXT == Join(ToTXTLines, "\n")

\* String.prototype.replace(/c/g, entity) on a text held as its pieces: each
\* piece is one of the five special characters or a run free of them.
RECURSIVE ReplaceAll(_, _, _)
ReplaceAll(pieces, char, entity) ==
    IF pieces = <<>> THEN <<>>
    ELSE (IF Head(pieces) = char THEN entity ELSE <<Head(pieces)>>)
         \o ReplaceAll(Tail(pieces), char, entity)

\* The pieces of the texts of the model that hold a special character.
Pieces(text) ==
    CASE text = "Tom & Jerry" -> <<"Tom ", "&", " Jerry">>
      [] text = "a<b>'c'" -> <<"a", "<", "b", ">", "'", "c", "'">>
      [] text = "say \"hi\"" -> <<"say ", "\"", "hi", "\"">>
      [] text = "https://example.com/a&b" -> <<"https://example.com/a", "&", "b">>
      [] text = "a&b.xsl" -> <<"a", "&", "b.xsl">>
      [] OTHER -> <<text>>

\* Mutant of EscapeXml: the apostrophe is left as it is.
EscapeXmlKeepsApostrophe(text, cfg) ==
    IF ~cfg.escaping THEN text
    ELSE Join(ReplaceAll(ReplaceAll(ReplaceAll(ReplaceAll(
                Pieces(text),
                "&", <<"&", "amp;">>),
                "<", <<"&", "lt;">>),
                ">", <<"&", "gt;">>),
                "\"", <<"&", "quot;">>), "")

\* Sitemap.escapeXml: the five replacements, `&` first.
EscapeXml(text, cfg) ==
    IF ~cfg.escaping THEN text
    ELSE Join(ReplaceAll(ReplaceAll(ReplaceAll(ReplaceAll(ReplaceAll(
                Pieces(text),
                "&", <<"&", "amp;">>),
                "<", <<"&", "lt;">>),
                ">", <<"&", "gt;">>),
                "\"", <<"&", "quot;">>),
                "'", <<"&", "#39;">>), "")

\* A number in tenths as a template literal prints it.
NumberToString(n) ==
    IF n < 0 THEN "-" \o (IF (0 - n) % 10 = 0 THEN ToString((0 - n) \div 10)
                          ELSE ToString((0 - n) \div 10) \o "." \o ToString((0 - n) % 10))
    ELSE IF n % 10 = 0 THEN ToString(n \div 10)
    ELSE ToString(n \div 10) \o "." \o ToString(n % 10)

\* Mutant of Indent: no indentation in compact mode, four spaces in pretty mode.
IndentScaled(indent) == IF indent = 0 THEN "" ELSE "    "

\* '  '.repeat(indent)
Indent(indent) == IF indent = 0 THEN "" ELSE "  "

\* Sitemap.formatDate (private): a string as it is, a Date through formatDate.
SitemapFormatDate(date) ==
    IF date.kind = "string" THEN [threw |-> FALSE, value |-> date.s]
    ELSE formatDate(date)

ImageLines(image, ind, cfg) ==
    <<ind \o "  <image:image>",
      ind \o "    <image:loc>" \o EscapeXml(image.url, cfg) \o "</image:loc>">>
    \o (IF Truthy(image.title)
        THEN <<ind \o "    <image:title>" \o EscapeXml(image.title.s, cfg) \o "</image:title>">>
        ELSE <<>>)
    \o (IF Truthy(image.caption)
        THEN <<ind \o "    <image:caption>" \o EscapeXml(image.caption.s, cfg)
               \o "</image:caption>">>
        ELSE <<>>)
    \o <<ind \o "  </image:image>">>

VideoLines(video, ind, cfg) ==
    <<ind \o "  <video:video>",
      ind \o "    <video:thumbnail_loc>" \o EscapeXml(video.thumbnail_url, cfg)
          \o "</video:thumbnail_loc>",
      ind \o "    <video:title><![CDATA[" \o video.title \o "]]></video:title>",
      ind \o "    <video:description><![CDATA[" \o video.description
          \o "]]></video:description>">>
    \o (IF video.duration.kind # "undefined"
        THEN <<ind \o "    <video:duration>" \o NumberToString(video.duration.t)
               \o "</video:duration>">>
        ELSE <<>>)
    \o <<ind \o "  </video:video>">>

TranslationLine(trans, ind, cfg) ==
    ind \o "  <xhtml:link rel=\"alternate\" hreflang=\"" \o trans.language
        \o "\" href=\"" \o EscapeXml(trans.url, cfg) \o "\" />"

AlternateLine(alt, ind, cfg) ==
    ind \o "  <xhtml:link rel=\"alternate\""
        \o (IF Truthy(alt.media) THEN " media=\"" \o alt.media.s \o "\"" ELSE "")
        \o " href=\"" \o EscapeXml(alt.url, cfg) \o "\" />"

NewsLines(news, ind, cfg) ==
    <<ind \o "  <news:news>",
      ind \o "    <news:publication>",
      ind \o "      <news:name>" \o EscapeXml(news.sitename, cfg) \o "</news:name>",
      ind \o "      <news:language>" \o news.language \o "</news:language>",
      ind \o "    </news:publication>",
      ind \o "    <news:publication_date>" \o SitemapFormatDate(news.publication_date).value
          \o "</news:publication_date>">>
    \o (IF Truthy(news.title)
        THEN <<ind \o "    <news:title>" \o EscapeXml(news.title.s, cfg) \o "</news:title>">>
        ELSE <<>>)
    \o <<ind \o "  </news:news>">>

\* Mutant of RenderSitemapItem: the priority is tested for truthiness, as the
\* strings are.
RenderSitemapItemPriorityTruthy(item, indent, cfg) ==
    LET ind == Indent(indent)
    IN <<ind \o "<url>",
         ind \o "  <loc>" \o EscapeXml(item.loc, cfg) \o "</loc>">>
       \o (IF Truthy(item.lastmod)
           THEN <<ind \o "  <lastmod>" \o item.lastmod.s \o "</lastmod>">> ELSE <<>>)
       \o (IF Truthy(item.changefreq)
           THEN <<ind \o "  <changefreq>" \o item.changefreq.s \o "</changefreq>">>
           ELSE <<>>)
       \o (IF Truthy(item.priority)
           THEN <<ind \o "  <priority>" \o NumberToString(item.priority.t) \o "</priority>">>
           ELSE <<>>)
       \o (IF item.images # <<>>
           THEN Flatten([k \in DOMAIN item.images[1] |->
                           ImageLines(item.images[1][k], ind, cfg)])
           ELSE <<>>)
       \o (IF item.videos # <<>>
           THEN Flatten([k \in DOMAIN item.videos[1] |->
                           VideoLines(item.videos[1][k], ind, cfg)])
           ELSE <<>>)
       \o (IF item.translations # <<>>
           THEN [k \in DOMAIN item.translations[1] |->
                   TranslationLine(item.translations[1][k], ind, cfg)]
           ELSE <<>>)
       \o (IF item.alternates # <<>>
           THEN [k \in DOMAIN item.alternates[1] |->
                   AlternateLine(item.alternates[1][k], ind, cfg)]
           ELSE <<>>)
       \o (IF item.googlenews # <<>>
           THEN NewsLines(item.googlenews[1], ind, cfg) ELSE <<>>)
       \o <<ind \o "</url>">>

\* Sitemap.renderSitemapItem: the lines of one <url> block (each is followed
\* by a newline in the output).
RenderSitemapItem(item, indent, cfg) ==
    LET ind == Indent(indent)
    IN <<ind \o "<url>",
         ind \o "  <loc>" \o EscapeXml(item.loc, cfg) \o "</loc>">>
       \o (IF Truthy(item.lastmod)
           THEN <<ind \o "  <lastmod>" \o item.lastmod.s \o "</lastmod>">> ELSE <<>>)
       \o (IF Truthy(item.changefreq)
           THEN <<ind \o "  <changefreq>" \o item.changefreq.s \o "</changefreq>">>
           ELSE <<>>)
       \o (IF item.priority.kind # "undefined"
           THEN <<ind \o "  <priority>" \o NumberToString(item.priority.t) \o "</priority>">>
           ELSE <<>>)
       \o (IF item.images # <<>>
           THEN Flatten([k \in DOMAIN item.images[1] |->
                           ImageLines(item.images[1][k], ind, cfg)])
           ELSE <<>>)
       \o (IF item.videos # <<>>
           THEN Flatten([k \in DOMAIN item.videos[1] |->
                           VideoLines(item.videos[1][k], ind, cfg)])
           ELSE <<>>)
       \o (IF item.translations # <<>>
           THEN [k \in DOMAIN item.translations[1] |->
                   TranslationLine(item.translations[1][k], ind, cfg)]
           ELSE <<>>)
       \o (IF item.alternates # <<>>
           THEN [k \in DOMAIN item.alternates[1] |->
                   AlternateLine(item.alternates[1][k], ind, cfg)]
           ELSE <<>>)
       \o (IF item.googlenews # <<>>
           THEN NewsLines(item.googlenews[1], ind, cfg) ELSE <<>>)
       \o <<ind \o "</url>">>

\* renderSitemapItem throws when formatDate rejects the news publication
\* date; the Error of formatDate, with its message, leaves toXML.
RenderThrows(item) ==
    item.googlenews # <<>> /\ SitemapFormatDate(item.googlenews[1].publication_date).threw

\* Mutant of UrlsetTag: a list that is present counts, even when empty.
UrlsetTagOnPresence(recs) ==
    LET hasImages == \E i \in DOMAIN recs : recs[i].images # <<>>
        hasVideos == \E i \in DOMAIN recs : recs[i].videos # <<>>
        hasTranslations == \E i \in DOMAIN recs : recs[i].translations # <<>>
        hasAlternates == \E i \in DOMAIN recs : recs[i].alternates # <<>>
        hasGoogleNews == \E i \in DOMAIN recs : recs[i].googlenews # <<>>
    IN "<urlset xmlns=\"http://www.sitemaps.org/schemas/sitemap/0.9\""
       \o (IF hasImages
           THEN " xmlns:image=\"http://www.google.com/schemas/sitemap-image/1.1\"" ELSE "")
       \o (IF hasVideos
           THEN " xmlns:video=\"http://www.google.com/schemas/sitemap-video/1.1\"" ELSE "")
       \o (IF hasTranslations \/ hasAlternates
           THEN " xmlns:xhtml=\"http://www.w3.org/1999/xhtml\"" ELSE "")
       \o (IF hasGoogleNews
           THEN " xmlns:news=\"http://www.google.com/schemas/sitemap-news/0.9\"" ELSE "")
       \o ">"

\* The opening <urlset ...> tag with the namespaces the content calls for.
UrlsetTag(recs) ==
    LET hasImages == \E i \in DOMAIN recs :
                        recs[i].images # <<>> /\ Len(recs[i].images[1]) > 0
        hasVideos == \E i \in DOMAIN recs :
                        recs[i].videos # <<>> /\ Len(recs[i].videos[1]) > 0
        hasTranslations == \E i \in DOMAIN recs :
                        recs[i].translations # <<>> /\ Len(recs[i].translations[1]) > 0
        hasAlternates == \E i \in DOMAIN recs :
                        recs[i].alternates # <<>> /\ Len(recs[i].alternates[1]) > 0
        hasGoogleNews == \E i \in DOMAIN recs : recs[i].googlenews # <<>>
    IN "<urlset xmlns=\"http://www.sitemaps.org/schemas/sitemap/0.9\""
       \o (IF hasImages
           THEN " xmlns:image=\"http://www.google.com/schemas/sitemap-image/1.1\"" ELSE "")
       \o (IF hasVideos
           THEN " xmlns:video=\"http://www.google.com/schemas/sitemap-video/1.1\"" ELSE "")
       \o (IF hasTranslations \/ hasAlternates
           THEN " xmlns:xhtml=\"http://www.w3.org/1999/xhtml\"" ELSE "")
       \o (IF hasGoogleNews
           THEN " xmlns:news=\"http://www.google.com/schemas/sitemap-news/0.9\"" ELSE "")
       \o ">"

\* Sitemap.toXML(options) on the records `recs`: [threw, message, lines]; the
\* returned string is the lines joined by newlines.  An option left out is
\* Undefined (`??` then takes the configured value); pretty is "true" or
\* "false" when given.
ToXMLOf(recs, cfg, optPretty, optStylesheet) ==
    LET pretty == IF optPretty.kind = "undefined" THEN cfg.pretty
                  ELSE optPretty.s = "true"
        stylesheet == IF optStylesheet.kind = "undefined" THEN cfg.stylesheet
                      ELSE optStylesheet.s
        throwing == {i \in DOMAIN recs : RenderThrows(recs[i])}
        first == CHOOSE i \in throwing : \A j \in throwing : i <= j
    IN IF throwing # {}
       THEN [threw |-> TRUE,
             message |->
                 SitemapFormatDate(recs[first].googlenews[1].publication_date).value,
             lines |-> <<>>]
       ELSE [threw |-> FALSE, message |-> "",
             lines |->
               <<"<?xml version=\"1.0\" encoding=\"UTF-8\"?>">>
               \o (IF stylesheet # ""
                   THEN <<"<?xml-stylesheet href=\"" \o EscapeXml(stylesheet, cfg)
                          \o "\" type=\"text/xsl\"?>">>
                   ELSE <<>>)
               \o <<UrlsetTag(recs)>>
               \o Flatten([i \in DOMAIN recs |->
                             RenderSitemapItem(recs[i], IF pretty THEN 1 ELSE 0, cfg)])
               \o <<"</urlset>">>]

\* Sitemap.toXML() of the store, with no options.
ToXML == ToXMLOf(Content(ModelGetItems(items), heap), config, Undefined, Undefined)

\* Time passes between calls.
Tick ==
    /\ now < MaxTime
    /\ now' = now + 1
    /\ UNCHANGED <<config, items, heap, view, idxConfig, idxItems, call, namespaces>>

\* ------------------------------------------------------ specification
NoCall ==
    [op |-> "new", input |-> <<>>, clock |-> 0, pre |-> <<>>,
     threw |-> FALSE, message |-> "", result |-> <<>>]

Init ==
    /\ config \in {[DEFAULT_CONFIG EXCEPT !.validate = v, !.baseUrl = b,
                                          !.maxItems = CfgMaxItems] :
                     v \in BOOLEAN, b \in BaseUrls}
    /\ items = <<>>
    /\ heap = <<>>
    /\ view = <<>>
    /\ idxConfig = INDEX_DEFAULT_CONFIG
    /\ idxItems = <<>>
    /\ now = MaxTime - 1
    /\ call = NoCall
    /\ namespaces = NoNamespaces

\* The arguments add and addItem are called with.
Urls == {"https://example.com/a#top", "/b", ""}

Lastmods == {Undefined, Str(ToISOString(MaxTime)), Str("invalid-date"),
             DateObj(0), InvalidDateObj}

InputItems == {[ItemOf(u) EXCEPT !.lastmod = l] : u \in Urls, l \in Lastmods}

BatchItems ==
    {[ItemOf(u) EXCEPT !.lastmod = l] :
       u \in {"https://example.com/a#top", "/b"},
       l \in {Undefined, InvalidDateObj}}

\* The lists of 1..n elements of S.
ListsOf(S, n) == UNION {[1..k -> S] : k \in 1..n}

AddStep ==
    \E u \in Urls, l \in Lastmods :
        /\ Len(items) < MaxStore
        /\ Add(u, l, Undefined, Undefined, NoOptions)

AddItemSingleStep ==
    \E item \in InputItems :
        /\ Len(items) < MaxStore
        /\ AddItem(<<item>>, FALSE)

AddItemListStep ==
    \E list \in ListsOf(BatchItems, MaxBatch) :
        /\ Len(items) + Len(list) <= MaxStore
        /\ AddItem(list, TRUE)

RemoveItemsStep == \E p \in Predicates : RemoveItems(p)

Next ==
    \/ AddStep
    \/ AddItemSingleStep
    \/ AddItemListStep
    \/ Clear
    \/ RemoveItemsStep
    \/ Validate
    \/ Tick

Spec == Init /\ [][Next]_vars

\* ------------------------------------ a caller holding getItems()'s value
\* const view = sitemap.getItems(): Model.getItems spreads the array into
\* a new one; its elements are the stored record objects themselves.
GetItemsCall ==
    /\ call' = Call("getItems", <<>>, FALSE, "", GetItems)
    /\ SetMemory(items, ModelGetItems(items), heap)
    /\ UNCHANGED <<config, idxConfig, idxItems, now, namespaces>>

\* view.push({ loc }): the caller appends an object of their own.
ViewPush(loc) ==
    \E ref \in {Fresh(heap)} :
        /\ call' = Call("view.push", <<loc>>, FALSE, "", <<>>)
        /\ SetMemory(items, Append(view, ref), (ref :> ItemOf(loc)) @@ heap)
        /\ UNCHANGED <<config, idxConfig, idxItems, now, namespaces>>

\* view.pop(): the caller removes the last element of the returned array.
ViewPop ==
    /\ view # <<>>
    /\ call' = Call("view.pop", <<>>, FALSE, "", <<>>)
    /\ SetMemory(items, SubSeq(view, 1, Len(view) - 1), heap)
    /\ UNCHANGED <<config, idxConfig, idxItems, now, namespaces>>

\* view[i - 1].loc = loc: the caller assigns a field of a returned record.
ViewSetLoc(i, loc) ==
    /\ i \in DOMAIN view
    /\ call' = Call("view.set", <<i, loc>>, FALSE, "", <<>>)
    /\ SetMemory(items, view, [heap EXCEPT ![view[i]].loc = loc])
    /\ UNCHANGED <<config, idxConfig, idxItems, now, namespaces>>

\* The location a caller writes into the array or into a record.
CallerLoc == "https://example.com/modified"

AliasAddStep ==
    \E u \in {"https://example.com/a#top", "/b"} :
        /\ Len(items) < MaxStore
        /\ Add(u, Undefined, Undefined, Undefined, NoOptions)

ViewPushStep == Len(view) <= Len(items) /\ ViewPush(CallerLoc)

ViewSetLocStep == \E i \in 1..(MaxStore + 1) : ViewSetLoc(i, CallerLoc)

NextAlias ==
    \/ AliasAddStep
    \/ GetItemsCall
    \/ ViewPushStep
    \/ ViewPop
    \/ ViewSetLocStep
    \/ Clear
    \/ RemoveItemsStep
    \/ Validate

SpecAlias == Init /\ [][NextAlias]_vars

\* ----------------------------------------- two instances of the store
\* Model.getConfig(): `{ ...this.config }`, a new object with the fields of
\* the stored one; the namespaces field of both refers to the same object.
ModelGetConfig(cfg) == cfg

\* A configuration as its reader sees it, the namespaces object read through.
ReadConfig(cfg) == [cfg EXCEPT !.namespaces = namespaces[cfg.namespaces]]

\* const c = a.getConfig() on the instance the state describes.
GetConfigCall ==
    /\ call' = Call("getConfig", <<>>, FALSE, "", <<ModelGetConfig(config)>>)
    /\ UNCHANGED <<config, items, heap, view, idxConfig, idxItems, now, namespaces>>

\* c.validate = !c.validate: the caller assigns a field of the returned copy.
ReturnedSetValidate ==
    /\ call.op = "getConfig"
    /\ call' = [call EXCEPT !.result[1].validate = ~@]
    /\ UNCHANGED <<config, items, heap, view, idxConfig, idxItems, now, namespaces>>

\* c.namespaces[prefix] = uri: the caller writes into the object the
\* returned copy refers to.
ReturnedSetNamespace(prefix) ==
    /\ call.op = "getConfig"
    /\ namespaces' = [namespaces EXCEPT ![call.result[1].namespaces] = @ \cup {prefix}]
    /\ UNCHANGED <<config, items, heap, view, idxConfig, idxItems, now, call>>

\* The prefixes a caller declares.
CallerPrefixes == {"image", "custom"}

ReturnedSetNamespaceStep == \E prefix \in CallerPrefixes : ReturnedSetNamespace(prefix)

\* A second instance, `new Model()`: the constructor's
\* `{ ...DEFAULT_CONFIG, ...config }` with an empty argument, and no records.
PeerConfig == DEFAULT_CONFIG

PeerItems == <<>>

\* peer.getConfig() as its reader sees it.
PeerReadConfig == ReadConfig(ModelGetConfig(PeerConfig))

NextInstances ==
    \/ AliasAddStep
    \/ GetItemsCall
    \/ ViewSetLocStep
    \/ Clear
    \/ GetConfigCall
    \/ ReturnedSetValidate
    \/ ReturnedSetNamespaceStep

SpecInstances == Init /\ [][NextInstances]_vars

\* --------------------------------------------------------- SitemapIndex
\* The max-sitemaps threshold the modelled indexes are constructed with.
CfgMaxSitemaps == 2

\* The record of a call on the index.
IdxCall(op, input, threw, message, result) ==
    [op |-> op, input |-> input, clock |-> now, pre |-> idxItems,
     cfg |-> idxConfig, threw |-> threw, message |-> message, result |-> result]

\* Mutant of validateSitemapItem: a lastmod after the clock is rejected, as
\* validateItem does for records.
validateSitemapItemRejectsFuture(item) ==
    (IF ~isValidUrl(item.loc)
     THEN <<Err("url", "loc", "Invalid URL format")>> ELSE <<>>)
    \o
    (IF Truthy(item.lastmod) /\ item.lastmod.kind = "string"
        /\ ~isValidLastModDate(item.lastmod, now)
     THEN <<Err("date", "lastmod", "Invalid date format")>> ELSE <<>>)

\* SitemapIndex.validateSitemapItem(item).
validateSitemapItem(item) ==
    (IF ~isValidUrl(item.loc)
     THEN <<Err("url", "loc", "Invalid URL format")>> ELSE <<>>)
    \o
    (IF Truthy(item.lastmod) /\ item.lastmod.kind = "string"
        /\ DateParse(item.lastmod.s) = NaNTime
     THEN <<Err("date", "lastmod", "Invalid date format")>> ELSE <<>>)

\* SitemapIndex.addSitemap, lines 549-560: the entry built from the
\* arguments, or the Error formatDate throws while it is built.
BuildIndexItem(loc, lastmod, cfg) ==
    LET base == [loc |-> NormalizeAndResolve(loc, cfg.baseUrl),
                 lastmod |-> Undefined]
        formatted == formatDate(lastmod)
    IN IF lastmod.kind = "undefined"
       THEN [threw |-> FALSE, message |-> "", item |-> base]
       ELSE IF lastmod.kind = "date"
       THEN IF formatted.threw
            THEN [threw |-> TRUE, message |-> formatted.value, item |-> base]
            ELSE [threw |-> FALSE, message |-> "",
                  item |-> [base EXCEPT !.lastmod = Str(formatted.value)]]
       ELSE [threw |-> FALSE, message |-> "",
             item |-> [base EXCEPT !.lastmod = lastmod]]

\* The message of the limit Error.
LimitMessage(cfg) ==
    "Maximum number of sitemaps (" \o ToString(cfg.maxSitemaps) \o ") exceeded"

\* Mutant of AddSitemap: the limit is checked only when validation is on.
AddSitemapLimitWhenValidating(loc, lastmod) ==
    \E built \in {BuildIndexItem(loc, lastmod, idxConfig)} :
    \E errors \in {validateSitemapItem(built.item)} :
    LET input == [loc |-> loc, lastmod |-> lastmod]
    IN /\ IF built.threw
          THEN /\ call' = IdxCall("addSitemap", <<input>>, TRUE, built.message, <<>>)
               /\ UNCHANGED idxItems
          ELSE IF idxConfig.validate /\ Len(errors) > 0
          THEN /\ call' = IdxCall("addSitemap", <<input>>, TRUE,
                                  "Validation failed: " \o ErrorMessages(errors), <<>>)
               /\ UNCHANGED idxItems
          ELSE IF idxConfig.validate /\ Len(idxItems) >= idxConfig.maxSitemaps
          THEN /\ call' = IdxCall("addSitemap", <<input>>, TRUE,
                                  LimitMessage(idxConfig), <<>>)
               /\ UNCHANGED idxItems
          ELSE /\ call' = IdxCall("addSitemap", <<input>>, FALSE, "", <<>>)
               /\ idxItems' = Append(idxItems, built.item)
       /\ UNCHANGED <<config, items, heap, view, idxConfig, now, namespaces>>

\* SitemapIndex.addSitemap(loc, lastmod).
AddSitemap(loc, lastmod) ==
    \E built \in {BuildIndexItem(loc, lastmod, idxConfig)} :
    \E errors \in {validateSitemapItem(built.item)} :
    LET input == [loc |-> loc, lastmod |-> lastmod]
    IN /\ IF built.threw
          THEN /\ call' = IdxCall("addSitemap", <<input>>, TRUE, built.message, <<>>)
               /\ UNCHANGED idxItems
          ELSE IF idxConfig.validate /\ Len(errors) > 0
          THEN /\ call' = IdxCall("addSitemap", <<input>>, TRUE,
                                  "Validation failed: " \o ErrorMessages(errors), <<>>)
               /\ UNCHANGED idxItems
          ELSE IF Len(idxItems) >= idxConfig.maxSitemaps
          THEN /\ call' = IdxCall("addSitemap", <<input>>, TRUE,
                                  LimitMessage(idxConfig), <<>>)
               /\ UNCHANGED idxItems
          ELSE /\ call' = IdxCall("addSitemap", <<input>>, FALSE, "", <<>>)
               /\ idxItems' = Append(idxItems, built.item)
       /\ UNCHANGED <<config, items, heap, view, idxConfig, now, namespaces>>

\* SitemapIndex.clear().
IndexClear ==
    /\ call' = IdxCall("clear", <<>>, FALSE, "", <<>>)
    /\ idxItems' = <<>>
    /\ UNCHANGED <<config, items, heap, view, idxConfig, now, namespaces>>

InitIndex ==
    /\ config = DEFAULT_CONFIG
    /\ items = <<>>
    /\ heap = <<>>
    /\ view = <<>>
    /\ idxConfig \in {[INDEX_DEFAULT_CONFIG EXCEPT !.validate = v, !.baseUrl = b,
                                                   !.maxSitemaps = CfgMaxSitemaps] :
                        v \in BOOLEAN, b \in BaseUrls}
    /\ idxItems = <<>>
    /\ now = MaxTime - 1
    /\ call = NoCall
    /\ namespaces = NoNamespaces

\* The arguments addSitemap is called with.
IndexLocs == {"https://example.com/a#top", "/b", "invalid-url"}

IndexLastmods == {Undefined, Str(ToISOString(MaxTime)), Str("invalid-date"),
                  InvalidDateObj}

AddSitemapStep == \E l \in IndexLocs, m \in IndexLastmods : AddSitemap(l, m)

NextIndex ==
    \/ AddSitemapStep
    \/ IndexClear
    \/ Tick

SpecIndex == InitIndex /\ [][NextIndex]_vars

\* ------------------------------------------- operations on a whole index
\* DataValidator.validateIndexItem(item).
validateIndexItem(item) ==
    (IF item.loc = ""
     THEN <<Err("required", "loc", "Sitemap URL (loc) is required")>>
     ELSE IF ~isValidUrl(item.loc)
     THEN <<Err("url", "loc", "Sitemap URL (loc) is not valid")>>
     ELSE <<>>)
    \o
    (IF item.lastmod.kind # "undefined" /\ ~ValidatorIsValidDate(item.lastmod)
     THEN <<Err("date", "lastmod", "Last modification date is not valid")>>
     ELSE <<>>)

\* Mutant of AddSitemapTo: the limit is reached one entry later.
AddSitemapToLimitStrict(loc, lastmod, its, cfg) ==
    LET built == BuildIndexItem(loc, lastmod, cfg)
        errors == validateSitemapItem(built.item)
    IN IF built.threw
       THEN [items |-> its, threw |-> TRUE, message |-> built.message]
       ELSE IF cfg.validate /\ Len(errors) > 0
       THEN [items |-> its, threw |-> TRUE,
             message |-> "Validation failed: " \o ErrorMessages(errors)]
       ELSE IF Len(its) > cfg.maxSitemaps
       THEN [items |-> its, threw |-> TRUE, message |-> LimitMessage(cfg)]
       ELSE [items |-> Append(its, built.item), threw |-> FALSE, message |-> ""]

\* SitemapIndex.addSitemap(loc, lastmod) on the entries `its` under the
\* configuration cfg: the entries it leaves and the Error it throws.
AddSitemapTo(loc, lastmod, its, cfg) ==
    LET built == BuildIndexItem(loc, lastmod, cfg)
        errors == validateSitemapItem(built.item)
    IN IF built.threw
       THEN [items |-> its, threw |-> TRUE, message |-> built.message]
       ELSE IF cfg.validate /\ Len(errors) > 0
       THEN [items |-> its, threw |-> TRUE,
             message |-> "Validation failed: " \o ErrorMessages(errors)]
       ELSE IF Len(its) >= cfg.maxSitemaps
       THEN [items |-> its, threw |-> TRUE, message |-> LimitMessage(cfg)]
       ELSE [items |-> Append(its, built.item), threw |-> FALSE, message |-> ""]

\* Mutant of AddSitemapsLoop: an entry that is rejected is skipped and the
\* loop goes on with the next one.
RECURSIVE AddSitemapsLoopSkipping(_, _, _)
AddSitemapsLoopSkipping(list, its, cfg) ==
    IF list = <<>> THEN [items |-> its, threw |-> FALSE, message |-> ""]
    ELSE CHOOSE done \in
           { IF one.threw /\ ~rest.threw
             THEN [rest EXCEPT !.threw = TRUE, !.message = one.message]
             ELSE rest :
               one \in {AddSitemapTo(Head(list).loc, Head(list).lastmod, its, cfg)},
               rest \in {AddSitemapsLoopSkipping(
                            Tail(list),
                            AddSitemapTo(Head(list).loc, Head(list).lastmod, its, cfg).items,
                            cfg)} } :
           TRUE

\* The for loop of SitemapIndex.addSitemaps: addSitemap for each entry in
\* order, left at the first Error (`one` is the outcome of the first call).
RECURSIVE AddSitemapsLoop(_, _, _)
AddSitemapsLoop(list, its, cfg) ==
    IF list = <<>> THEN [items |-> its, threw |-> FALSE, message |-> ""]
    ELSE CHOOSE done \in
           { IF one.threw THEN one
             ELSE AddSitemapsLoop(Tail(list), one.items, cfg) :
               one \in {AddSitemapTo(Head(list).loc, Head(list).lastmod, its, cfg)} } :
           TRUE

\* SitemapIndex.addSitemaps(sitemaps).
AddSitemaps(sitemaps) ==
    \E done \in {AddSitemapsLoop(sitemaps, idxItems, idxConfig)} :
        /\ call' = IdxCall("addSitemaps", <<sitemaps>>, done.threw, done.message, <<>>)
        /\ idxItems' = done.items
        /\ UNCHANGED <<config, items, heap, view, idxConfig, now, namespaces>>

\* SitemapIndex.resetSitemaps(sitemaps): this.items = [] and then addSitemaps.
ResetSitemaps(sitemaps) ==
    \E done \in {AddSitemapsLoop(sitemaps, <<>>, idxConfig)} :
        /\ call' = IdxCall("resetSitemaps", <<sitemaps>>, done.threw, done.message, <<>>)
        /\ idxItems' = done.items
        /\ UNCHANGED <<config, items, heap, view, idxConfig, now, namespaces>>

\* this.items.filter(item => !predicate(item)) on the entries of an index.
RECURSIVE IndexFilter(_, _, _)
IndexFilter(its, predicate, index) ==
    IF index > Len(its) THEN <<>>
    ELSE (IF Holds(predicate, its[index], index) THEN <<>> ELSE <<its[index]>>)
         \o IndexFilter(its, predicate, index + 1)

\* SitemapIndex.removeSitemaps(predicate).
RemoveSitemaps(predicate) ==
    /\ call' = IdxCall("removeSitemaps", <<predicate>>, FALSE, "", <<>>)
    /\ idxItems' = IndexFilter(idxItems, predicate, 1)
    /\ UNCHANGED <<config, items, heap, view, idxConfig, now, namespaces>>

\* SitemapIndex.hasSitemap(url) on the entries `its`.
HasSitemapIn(url, its) ==
    LET normalizedUrl == normalizeUrl(url)
    IN \E k \in DOMAIN its : its[k].loc = normalizedUrl

\* SitemapIndex.hasSitemap(url).
hasSitemap(url) == HasSitemapIn(url, idxItems)

\* { ...this.config, ...config }
MergeConfig(cfg, partial) ==
    [f \in DOMAIN cfg |-> IF f \in DOMAIN partial THEN partial[f] ELSE cfg[f]]

\* SitemapIndex.setConfig(config).
SetConfig(partial) ==
    /\ call' = IdxCall("setConfig", <<partial>>, FALSE, "", <<>>)
    /\ idxConfig' = MergeConfig(idxConfig, partial)
    /\ UNCHANGED <<config, items, heap, view, idxItems, now, namespaces>>

\* SitemapIndex.getSitemapCount().
getSitemapCount == Len(idxItems)

\* Indexes with a base URL, with and without validation, driven by every
\* mutating operation: entries with an absolute location carrying a
\* fragment, a relative one, an empty lastmod and one that does not parse.
InitIndexOps ==
    /\ config = DEFAULT_CONFIG
    /\ items = <<>>
    /\ heap = <<>>
    /\ view = <<>>
    /\ idxConfig \in {[INDEX_DEFAULT_CONFIG EXCEPT !.validate = v,
                                                   !.baseUrl = "https://example.com",
                                                   !.maxSitemaps = CfgMaxSitemaps] :
                        v \in BOOLEAN}
    /\ idxItems = <<>>
    /\ now = MaxTime - 1
    /\ call = NoCall
    /\ namespaces = NoNamespaces

\* The entries handed to addSitemaps and resetSitemaps.
OpsEntries ==
    { [loc |-> "https://example.com/a#top", lastmod |-> Undefined],
      [loc |-> "/b", lastmod |-> Str("")],
      [loc |-> "https://example.com/b", lastmod |-> Str("invalid-date")] }

\* The arguments of addSitemap: those entries, one without a location, a
\* relative one and one whose lastmod is a Date.
OpsArguments ==
    OpsEntries \cup { [loc |-> "", lastmod |-> Undefined],
                      [loc |-> "/b", lastmod |-> Undefined],
                      [loc |-> "/b#sec", lastmod |-> DateObj(0)] }

\* The configurations handed to setConfig.
OpsPartials ==
    { [validate |-> TRUE], [validate |-> FALSE],
      [maxSitemaps |-> 1], [maxSitemaps |-> CfgMaxSitemaps] }

OpsAddSitemapStep == \E e \in OpsArguments : AddSitemap(e.loc, e.lastmod)

OpsAddSitemapsStep == \E list \in ListsOf(OpsEntries, MaxBatch) : AddSitemaps(list)

OpsResetSitemapsStep == \E list \in ListsOf(OpsEntries, MaxBatch) : ResetSitemaps(list)

OpsRemoveSitemapsStep == \E p \in Predicates : RemoveSitemaps(p)

OpsSetConfigStep == \E partial \in OpsPartials : SetConfig(partial)

NextIndexOps ==
    \/ OpsAddSitemapStep
    \/ OpsAddSitemapsStep
    \/ OpsResetSitemapsStep
    \/ OpsRemoveSitemapsStep
    \/ OpsSetConfigStep
    \/ IndexClear

SpecIndexOps == InitIndexOps /\ [][NextIndexOps]_vars

\* ------------------------------------------ the utilities called directly
\* The date strings given to isSameDay, as Date parses them: the instant in
\* hours since 2025-01-14T00:00:00Z.
ClockStrings ==
    { [src |-> "2025-01-15", hours |-> 24],
      [src |-> "2025-01-15T00:00:00Z", hours |-> 24],
      [src |-> "2025-01-14T18:00:00-06:00", hours |-> 24],
      [src |-> "2025-01-15T08:00:00Z", hours |-> 32],
      [src |-> "2025-01-15T20:00:00Z", hours |-> 44],
      [src |-> "2025-01-16T12:00:00Z", hours |-> 60] }

\* new Date(s).getTime() in hours, or NaNTime when s does not parse.
ClockParse(s) ==
    IF \E e \in ClockStrings : e.src = s
    THEN (CHOOSE e \in ClockStrings : e.src = s).hours
    ELSE NaNTime

\* parseDate(date): a Date is copied, whatever its time value; a string is
\* parsed and an Error is thrown when the result is an invalid Date.
parseDate(date) ==
    IF date.kind = "date" THEN [threw |-> FALSE, t |-> date.t]
    ELSE IF ClockParse(date.s) = NaNTime THEN [threw |-> TRUE, t |-> NaNTime]
    ELSE [threw |-> FALSE, t |-> ClockParse(date.s)]

\* getFullYear(), getMonth() and getDate() of the instant t in a process
\* whose local time is `zone` hours ahead of UTC: NaN for an invalid Date.
\* Every modelled instant lies in January 2025.
LocalFields(t, zone) ==
    IF t = NaNTime THEN [year |-> NaNTime, month |-> NaNTime, date |-> NaNTime]
    ELSE [year |-> 2025, month |-> 0, date |-> 14 + ((t + zone) \div 24)]

\* a === b on numbers: NaN equals nothing.
StrictEquals(a, b) == a # NaNTime /\ b # NaNTime /\ a = b

\* isSameDay(date1, date2), run where local time is `zone` hours ahead of UTC.
isSameDay(date1, date2, zone) ==
    LET d1 == parseDate(date1)
        d2 == parseDate(date2)
    IN IF d1.threw \/ d2.threw THEN FALSE
       ELSE /\ StrictEquals(LocalFields(d1.t, zone).year, LocalFields(d2.t, zone).year)
            /\ StrictEquals(LocalFields(d1.t, zone).month, LocalFields(d2.t, zone).month)
            /\ StrictEquals(LocalFields(d1.t, zone).date, LocalFields(d2.t, zone).date)

\* The dates handed to isSameDay: the strings above, one that does not
\* parse, a Date and an invalid Date.
ClockValues ==
    {Str(e.src) : e \in ClockStrings}
        \cup {Str("invalid-date"), DateObj(44), InvalidDateObj}

\* The offsets of local time from UTC, in hours, of the processes modelled.
TimeZones == {0, 5, 0 - 6}

IsSameDayCall(date1, date2, zone) ==
    /\ call' = Call("isSameDay", <<date1, date2, zone>>, FALSE, "",
                    <<isSameDay(date1, date2, zone)>>)
    /\ UNCHANGED <<config, items, heap, view, idxConfig, idxItems, now, namespaces>>

IsSameDayStep ==
    \E date1 \in ClockValues, date2 \in ClockValues, zone \in TimeZones :
        IsSameDayCall(date1, date2, zone)

\* The strings handed to normalizeUrl.
UtilityUrls ==
    {e.src : e \in AbsoluteUrls} \cup {e.src : e \in RelativeRefs} \cup {""}

NormalizeUrlCall(url) ==
    /\ call' = Call("normalizeUrl", <<url>>, FALSE, "", <<normalizeUrl(url)>>)
    /\ UNCHANGED <<config, items, heap, view, idxConfig, idxItems, now, namespaces>>

NormalizeUrlStep == \E url \in UtilityUrls : NormalizeUrlCall(url)

\* normalizeUrl applied to what the last call of it returned: the record
\* keeps both results.
NormalizeUrlAgain ==
    /\ call.op = "normalizeUrl"
    /\ Len(call.result) = 1
    /\ call' = [call EXCEPT !.result = Append(@, normalizeUrl(@[1]))]
    /\ UNCHANGED <<config, items, heap, view, idxConfig, idxItems, now, namespaces>>

NextUtilities ==
    \/ NormalizeUrlStep
    \/ NormalizeUrlAgain
    \/ IsSameDayStep

SpecUtilities == Init /\ [][NextUtilities]_vars

\* ----------------------------------------------- validateItem on its own
\* validator.validateItem(item), called directly.
ValidateItemCall(item) ==
    \E errors \in {validateItem(item, now)} :
        /\ call' = Call("validateItem", <<item>>, FALSE, "", errors)
        /\ UNCHANGED <<config, items, heap, view, idxConfig, idxItems, now, namespaces>>

\* The field values of the records validateItem and add are given.
RichLocs == {"https://example.com/a", "invalid-url", ""}

RichPriorities == {Undefined, Num(0), Num(10), Num(11)}

RichLastmods ==
    {Undefined, Str("invalid-date"), Str(""), DateObj(MaxTime), InvalidDateObj}
    \cup {Str(ToISOString(t)) : t \in Instants}

RichChangefreqs == {Undefined, Str("daily"), Str("sometimes")}

GoodImage == [url |-> "https://example.com/img.png", title |-> Undefined,
              caption |-> Undefined]

RichImages ==
    {<<>>, <<<<GoodImage>>>>,
     <<<<[GoodImage EXCEPT !.url = ""], GoodImage,
         [GoodImage EXCEPT !.url = "invalid-url"]>>>>}

GoodVideo == [thumbnail_url |-> "https://example.com/img.png",
              title |-> "Tom & Jerry", description |-> "a<b>'c'",
              duration |-> Num(6000), rating |-> Num(45)]

RichVideos ==
    {<<>>, <<<<GoodVideo>>>>,
     <<<<[GoodVideo EXCEPT !.thumbnail_url = "invalid-url", !.title = "",
                           !.description = "", !.duration = Num(15),
                           !.rating = Num(60)],
         [GoodVideo EXCEPT !.thumbnail_url = ""]>>>>}

GoodTranslation == [language |-> "de", url |-> "https://example.com/b"]

RichTranslations ==
    {<<>>, <<<<[language |-> "", url |-> "invalid-url"], GoodTranslation,
               [language |-> "fr", url |-> ""]>>>>}

GoodAlternate == [url |-> "https://example.com/b", media |-> Str("handheld")]

RichAlternates ==
    {<<>>, <<<<GoodAlternate, [GoodAlternate EXCEPT !.url = "invalid-url"]>>>>}

GoodNews == [sitename |-> "Example News", language |-> "en",
             publication_date |-> Str(ToISOString(MaxTime)), title |-> Undefined]

RichNews ==
    {<<>>, <<GoodNews>>,
     <<[GoodNews EXCEPT !.publication_date = Undefined]>>,
     <<[GoodNews EXCEPT !.sitename = "", !.language = "",
                        !.publication_date = Str("invalid-date")]>>}

RichOptions ==
    {[title |-> Undefined, images |-> i, videos |-> v, translations |-> t,
      alternates |-> a, googlenews |-> g] :
       i \in RichImages, v \in RichVideos, t \in RichTranslations,
       a \in RichAlternates, g \in RichNews}

\* The arguments of the one call a run makes.
RichArguments ==
    {[url |-> u, lastmod |-> l, priority |-> p, changefreq |-> c, options |-> o] :
       u \in RichLocs, l \in RichLastmods, p \in RichPriorities,
       c \in RichChangefreqs, o \in RichOptions}

\* The record a caller builds from these arguments to hand to validateItem.
RecordOf(a) ==
    [loc |-> a.url, lastmod |-> a.lastmod, priority |-> a.priority,
     changefreq |-> a.changefreq, title |-> a.options.title,
     images |-> a.options.images, videos |-> a.options.videos,
     translations |-> a.options.translations,
     alternates |-> a.options.alternates,
     googlenews |-> a.options.googlenews]

\* A validating store with nothing in it and a call about to be made.
InitValidate ==
    /\ config = [DEFAULT_CONFIG EXCEPT !.maxItems = CfgMaxItems]
    /\ items = <<>>
    /\ heap = <<>>
    /\ view = <<>>
    /\ idxConfig = INDEX_DEFAULT_CONFIG
    /\ idxItems = <<>>
    /\ now = MaxTime - 1
    /\ call \in {[NoCall EXCEPT !.input = <<a>>] : a \in RichArguments}
    /\ namespaces = NoNamespaces

ValidateItemStep ==
    /\ call.op = "new"
    /\ ValidateItemCall(RecordOf(call.input[1]))

RichAddStep ==
    /\ call.op = "new"
    /\ \E a \in {call.input[1]} :
          Add(a.url, a.lastmod, a.priority, a.changefreq, a.options)

NextValidate ==
    \/ ValidateItemStep
    \/ RichAddStep
    \/ Tick

SpecValidate == InitValidate /\ [][NextValidate]_vars

\* ------------------------------------------------------- rendering calls
\* RenderOptions: a field left out is Undefined; pretty, when given, is
\* "true" or "false".
RenderOptionsSet ==
    {[pretty |-> p, stylesheet |-> s] :
       p \in {Undefined, Str("true"), Str("false")},
       s \in {Undefined, Str("a&b.xsl")}}

\* Mutant of ToXMLCall: the options are merged into the stored configuration.
ToXMLCallStoresOptions(options) ==
    \E out \in {ToXMLOf(Content(ModelGetItems(items), heap), config,
                        options.pretty, options.stylesheet)} :
        /\ call' = Call("toXML", <<options>>, out.threw, out.message, out.lines)
        /\ config' = [config EXCEPT
                        !.pretty = IF options.pretty.kind = "undefined" THEN @
                                   ELSE options.pretty.s = "true",
                        !.stylesheet = IF options.stylesheet.kind = "undefined" THEN @
                                       ELSE options.stylesheet.s]
        /\ UNCHANGED <<items, heap, view, idxConfig, idxItems, now, namespaces>>

\* Sitemap.toXML(options).
ToXMLCall(options) ==
    \E out \in {ToXMLOf(Content(ModelGetItems(items), heap), config,
                        options.pretty, options.stylesheet)} :
        /\ call' = Call("toXML", <<options>>, out.threw, out.message, out.lines)
        /\ UNCHANGED <<config, items, heap, view, idxConfig, idxItems, now, namespaces>>

\* The message of the Error render throws for a format other than 'xml'.
NotImplementedMessage(format) ==
    "Format '" \o format \o "' not yet implemented. Currently only 'xml' is supported."

\* Mutant of Render: 'txt' is served by toTXT.
RenderServesTxt(format, options) ==
    \E out \in {ToXMLOf(Content(ModelGetItems(items), heap), config,
                        options.pretty, options.stylesheet)} :
        /\ IF format = "txt"
           THEN call' = Call("render", <<format, options>>, FALSE, "", ToTXTLines)
           ELSE IF format # "xml"
           THEN call' = Call("render", <<format, options>>, TRUE,
                             NotImplementedMessage(format), <<>>)
           ELSE call' = Call("render", <<format, options>>, out.threw, out.message,
                             out.lines)
        /\ UNCHANGED <<config, items, heap, view, idxConfig, idxItems, now, namespaces>>

\* Sitemap.render(format, options).
Render(format, options) ==
    \E out \in {ToXMLOf(Content(ModelGetItems(items), heap), config,
                        options.pretty, options.stylesheet)} :
        /\ IF format # "xml"
           THEN call' = Call("render", <<format, options>>, TRUE,
                             NotImplementedMessage(format), <<>>)
           ELSE call' = Call("render", <<format, options>>, out.threw, out.message,
                             out.lines)
        /\ UNCHANGED <<config, items, heap, view, idxConfig, idxItems, now, namespaces>>

\* SitemapIndex.renderSitemapIndexItem: the lines of one <sitemap> block.
RenderSitemapIndexItem(item, indent, cfg) ==
    LET ind == Indent(indent)
    IN <<ind \o "<sitemap>",
         ind \o "  <loc>" \o EscapeXml(item.loc, cfg) \o "</loc>">>
       \o (IF Truthy(item.lastmod)
           THEN <<ind \o "  <lastmod>" \o item.lastmod.s \o "</lastmod>">> ELSE <<>>)
       \o <<ind \o "</sitemap>">>

\* SitemapIndex.toXML(options) on the entries `entries`: the lines of the
\* returned string.
IndexToXMLOf(entries, cfg, optPretty, optStylesheet) ==
    LET pretty == IF optPretty.kind = "undefined" THEN cfg.pretty
                  ELSE optPretty.s = "true"
        stylesheet == IF optStylesheet.kind = "undefined" THEN cfg.stylesheet
                      ELSE optStylesheet.s
    IN <<"<?xml version=\"1.0\" encoding=\"UTF-8\"?>">>
       \o (IF stylesheet # ""
           THEN <<"<?xml-stylesheet href=\"" \o EscapeXml(stylesheet, cfg)
                  \o "\" type=\"text/xsl\"?>">>
           ELSE <<>>)
       \o <<"<sitemapindex xmlns=\"http://www.sitemaps.org/schemas/sitemap/0.9\">">>
       \o Flatten([i \in DOMAIN entries |->
                     RenderSitemapIndexItem(entries[i], IF pretty THEN 1 ELSE 0, cfg)])
       \o <<"</sitemapindex>">>

\* SitemapIndex.toXML(options).
IndexToXMLCall(options) ==
    \E lines \in {IndexToXMLOf(idxItems, idxConfig, options.pretty,
                               options.stylesheet)} :
        /\ call' = IdxCall("indexToXML", <<options>>, FALSE, "", lines)
        /\ UNCHANGED <<config, items, heap, view, idxConfig, idxItems, now, namespaces>>

\* The two stores are separate objects that share nothing; a run of this
\* specification fills and renders one of them.
InitRender ==
    /\ \E e \in BOOLEAN, p \in BOOLEAN, v \in BOOLEAN, s \in {"", "a&b.xsl"} :
          /\ config = [DEFAULT_CONFIG EXCEPT !.escaping = e, !.pretty = p,
                                             !.validate = v, !.stylesheet = s,
                                             !.maxItems = CfgMaxItems]
          /\ idxConfig = [INDEX_DEFAULT_CONFIG EXCEPT
                             !.escaping = e, !.pretty = p, !.validate = v,
                             !.stylesheet = s, !.maxSitemaps = CfgMaxSitemaps]
    /\ items = <<>>
    /\ heap = <<>>
    /\ view = <<>>
    /\ idxItems = <<>>
    /\ now = MaxTime - 1
    /\ call = NoCall
    /\ namespaces = NoNamespaces

\* The arguments of add in this specification: a record with every feature,
\* a record whose lists are all empty, records with one feature each, and
\* records only a store that does not validate accepts.
Arguments(url, lastmod, priority, changefreq, options) ==
    [url |-> url, lastmod |-> lastmod, priority |-> priority,
     changefreq |-> changefreq, options |-> options]

EmptyLists ==
    [NoOptions EXCEPT !.images = <<<<>>>>, !.videos = <<<<>>>>,
                      !.translations = <<<<>>>>, !.alternates = <<<<>>>>]

RenderArguments ==
    { Arguments("https://example.com/a#top", DateObj(0), Num(0), Str("daily"),
                [title |-> Str("Home"),
                 images |-> <<<<[GoodImage EXCEPT !.title = Str("Tom & Jerry"),
                                                  !.caption = Str("a<b>'c'")],
                                GoodImage>>>>,
                 videos |-> <<<<GoodVideo,
                                [GoodVideo EXCEPT !.duration = Undefined]>>>>,
                 translations |-> <<<<GoodTranslation>>>>,
                 alternates |-> <<<<GoodAlternate,
                                    [GoodAlternate EXCEPT !.media = Undefined]>>>>,
                 googlenews |-> <<[GoodNews EXCEPT !.title = Str("say \"hi\"")]>>]),
      Arguments("https://example.com/b", Str(DateOnlyString(0)), Undefined, Undefined,
                EmptyLists),
      Arguments("a<b>'c'", Str(""), Num(5), Str(""),
                [NoOptions EXCEPT !.images = <<<<GoodImage>>>>]),
      Arguments("https://example.com/a&b", Undefined, Undefined, Undefined,
                [NoOptions EXCEPT !.videos = <<<<GoodVideo>>>>]),
      Arguments("https://example.com/a", Undefined, Undefined, Undefined,
                [NoOptions EXCEPT !.translations = <<<<GoodTranslation>>>>]),
      Arguments("https://example.com/a", Undefined, Undefined, Undefined,
                [NoOptions EXCEPT !.alternates = <<<<GoodAlternate>>>>]),
      Arguments("https://example.com/a", Undefined, Undefined, Undefined,
                [NoOptions EXCEPT !.googlenews =
                    <<[GoodNews EXCEPT !.publication_date = DateObj(0)]>>]),
      Arguments("a<b>'c'", Undefined, Undefined, Undefined,
                [NoOptions EXCEPT !.googlenews =
                    <<[GoodNews EXCEPT !.publication_date = InvalidDateObj]>>]),
      Arguments("https://example.com/a", Undefined, Undefined, Undefined,
                [NoOptions EXCEPT !.googlenews =
                    <<[GoodNews EXCEPT !.publication_date = Undefined]>>]) }

\* The arguments of addSitemap in this specification.
IndexRenderLocs == {"https://example.com/a&b", "a<b>'c'"}

IndexRenderLastmods == {Undefined, Str(DateOnlyString(0)), DateObj(0)}

\* The format tags render is called with.
Formats == {"xml", "txt", "json"}

RenderAddStep ==
    \E a \in RenderArguments :
        /\ idxItems = <<>>
        /\ Len(items) < MaxStore
        /\ Add(a.url, a.lastmod, a.priority, a.changefreq, a.options)

ToXMLStep == \E o \in RenderOptionsSet : idxItems = <<>> /\ ToXMLCall(o)

RenderStep ==
    \E f \in Formats,
       o \in {[pretty |-> Undefined, stylesheet |-> Undefined],
              [pretty |-> Str("true"), stylesheet |-> Str("a&b.xsl")]} :
        idxItems = <<>> /\ Render(f, o)

RenderAddSitemapStep ==
    \E l \in IndexRenderLocs, m \in IndexRenderLastmods :
        items = <<>> /\ AddSitemap(l, m)

IndexToXMLStep == \E o \in RenderOptionsSet : items = <<>> /\ IndexToXMLCall(o)

NextRender ==
    \/ RenderAddStep
    \/ ToXMLStep
    \/ RenderStep
    \/ RenderAddSitemapStep
    \/ IndexToXMLStep

SpecRender == InitRender /\ [][NextRender]_vars

\* ------------------------------------------------------------ getStats
\* The sum of a sequence of numbers.
RECURSIVE SumSeq(_)
SumSeq(numbers) ==
    IF numbers = <<>> THEN 0 ELSE Head(numbers) + SumSeq(Tail(numbers))

\* list && list.length > 0
NonEmptyList(list) == list # <<>> /\ Len(list[1]) > 0

\* list.length of a list that is there, nothing for one that is not.
LengthOf(list) == IF list = <<>> THEN 0 ELSE Len(list[1])

\* The callback of the reduce in getStats: the size estimated for one item.
ItemSize(item) ==
    150 + Len(item.loc)
    + (IF Truthy(item.title) THEN Len(item.title.s) + 15 ELSE 0)
    + (IF Truthy(item.lastmod) THEN 30 ELSE 0)
    + LengthOf(item.images) * 200
    + LengthOf(item.videos) * 500
    + LengthOf(item.translations) * 100
    + LengthOf(item.alternates) * 100
    + (IF item.googlenews # <<>> THEN 300 ELSE 0)

\* Mutant of getStats: a list that is there counts, empty or not.
getStatsCountsPresence(its) ==
    [urls |-> Len(its),
     withImages |-> Cardinality({k \in DOMAIN its : its[k].images # <<>>}),
     withVideos |-> Cardinality({k \in DOMAIN its : its[k].videos # <<>>}),
     withTranslations |->
         Cardinality({k \in DOMAIN its : its[k].translations # <<>>}),
     withAlternates |-> Cardinality({k \in DOMAIN its : its[k].alternates # <<>>}),
     withGoogleNews |-> Cardinality({k \in DOMAIN its : its[k].googlenews # <<>>}),
     totalImages |-> SumSeq([k \in DOMAIN its |-> LengthOf(its[k].images)]),
     totalVideos |-> SumSeq([k \in DOMAIN its |-> LengthOf(its[k].videos)]),
     estimatedSize |-> 500 + SumSeq([k \in DOMAIN its |-> ItemSize(its[k])])]

\* Sitemap.getStats() over the items getItems() returns.
getStats(its) ==
    [urls |-> Len(its),
     withImages |-> Cardinality({k \in DOMAIN its : NonEmptyList(its[k].images)}),
     withVideos |-> Cardinality({k \in DOMAIN its : NonEmptyList(its[k].videos)}),
     withTranslations |->
         Cardinality({k \in DOMAIN its : NonEmptyList(its[k].translations)}),
     withAlternates |->
         Cardinality({k \in DOMAIN its : NonEmptyList(its[k].alternates)}),
     withGoogleNews |-> Cardinality({k \in DOMAIN its : its[k].googlenews # <<>>}),
     totalImages |-> SumSeq([k \in DOMAIN its |-> LengthOf(its[k].images)]),
     totalVideos |-> SumSeq([k \in DOMAIN its |-> LengthOf(its[k].videos)]),
     estimatedSize |-> 500 + SumSeq([k \in DOMAIN its |-> ItemSize(its[k])])]

GetStatsCall ==
    \E stats \in {getStats(Content(items, heap))} :
        /\ call' = Call("getStats", <<>>, FALSE, "", <<stats>>)
        /\ UNCHANGED <<config, items, heap, view, idxConfig, idxItems, now, namespaces>>

\* The arguments of add in this specification: a record with every feature,
\* one whose lists are all empty, one with an empty title and one with an
\* empty lastmod.
StatsArguments ==
    { Arguments("https://example.com/a#top", DateObj(0), Num(5), Str("daily"),
                [title |-> Str("Home"),
                 images |-> <<<<GoodImage, GoodImage>>>>,
                 videos |-> <<<<GoodVideo>>>>,
                 translations |-> <<<<GoodTranslation>>>>,
                 alternates |-> <<<<GoodAlternate, GoodAlternate>>>>,
                 googlenews |-> <<[GoodNews EXCEPT !.publication_date = DateObj(0)]>>]),
      Arguments("https://example.com/b", Str(DateOnlyString(0)), Undefined, Undefined,
                EmptyLists),
      Arguments("https://example.com", Undefined, Undefined, Undefined,
                [NoOptions EXCEPT !.title = Str("")]),
      Arguments("/b", Str(""), Undefined, Undefined, NoOptions) }

StatsAddStep ==
    \E a \in StatsArguments :
        /\ Len(items) < MaxStore
        /\ Add(a.url, a.lastmod, a.priority, a.changefreq, a.options)

NextStats ==
    \/ StatsAddStep
    \/ GetStatsCall
    \/ Clear

SpecStats == Init /\ [][NextStats]_vars

\* ------------------------------------------------ locations given to add
\* Absolute URLs with and without a fragment or a path, relative references,
\* the empty string and a URL of another scheme, added to stores with and
\* without a base URL and rendered.
UrlInputs ==
    {"https://example.com/a#top", "https://example.com", "https://example.com/b",
     "/b#sec", "invalid-url", "", "ftp://example.com/f"}

UrlAddStep ==
    \E u \in UrlInputs :
        /\ Len(items) < MaxStore
        /\ Add(u, Undefined, Undefined, Undefined, NoOptions)

UrlToXMLStep == ToXMLCall([pretty |-> Undefined, stylesheet |-> Undefined])

NextUrl ==
    \/ UrlAddStep
    \/ UrlToXMLStep

SpecUrl == Init /\ [][NextUrl]_vars

\* ------------------------------------------------ removal from the store
\* Stores of up to MaxStore + 1 records, some of them equal, some with a
\* lastmod, some with a location that is not a valid URL, and removeItems
\* with each predicate.
RemoveAddStep ==
    \E u \in Urls, l \in {Undefined, DateObj(0)} :
        /\ Len(items) < MaxStore + 1
        /\ Add(u, l, Undefined, Undefined, NoOptions)

NextRemove ==
    \/ RemoveAddStep
    \/ RemoveItemsStep

SpecRemove == Init /\ [][NextRemove]_vars

\* ------------------------------------------------ calls repeated over time
\* add, addItem and addSitemap with arguments that fail (an empty location,
\* a lastmod that does not parse, that is an invalid Date, or that lies after
\* the clock) and that succeed, on stores with and without validation, while
\* the clock advances.  A run fills one of the two stores.
RetryUrls == {"https://example.com/a#top", ""}

RetryLastmods ==
    {Undefined, Str(ToISOString(MaxTime)), Str("invalid-date"), InvalidDateObj}

RetryItems ==
    {[ItemOf("https://example.com/a#top") EXCEPT !.lastmod = l] : l \in RetryLastmods}

InitRetry ==
    /\ \E v \in BOOLEAN :
          /\ config = [DEFAULT_CONFIG EXCEPT !.validate = v, !.maxItems = CfgMaxItems]
          /\ idxConfig = [INDEX_DEFAULT_CONFIG EXCEPT
                             !.validate = v, !.maxSitemaps = CfgMaxSitemaps]
    /\ items = <<>>
    /\ heap = <<>>
    /\ view = <<>>
    /\ idxItems = <<>>
    /\ now = MaxTime - 1
    /\ call = NoCall
    /\ namespaces = NoNamespaces

RetryAddStep ==
    \E u \in RetryUrls, l \in RetryLastmods :
        /\ idxItems = <<>>
        /\ Len(items) < MaxStore
        /\ Add(u, l, Undefined, Undefined, NoOptions)

RetryAddItemStep ==
    \E list \in ListsOf(RetryItems, MaxBatch) :
        /\ idxItems = <<>>
        /\ Len(items) + Len(list) <= MaxStore
        /\ AddItem(list, TRUE)

RetryAddSitemapStep ==
    \E l \in RetryUrls, m \in RetryLastmods :
        /\ items = <<>>
        /\ AddSitemap(l, m)

NextRetry ==
    \/ RetryAddStep
    \/ RetryAddItemStep
    \/ RetryAddSitemapStep
    \/ Tick

SpecRetry == InitRetry /\ [][NextRetry]_vars

\* ------------------------------------------- locations given to each store
\* add, addItem and addSitemap with the locations of UrlInputs, on stores
\* with and without validation and with and without a base URL.  A run
\* fills one of the two stores.
InitLocations ==
    /\ \E v \in BOOLEAN, b \in BaseUrls :
          /\ config = [DEFAULT_CONFIG EXCEPT !.validate = v, !.baseUrl = b,
                                             !.maxItems = CfgMaxItems]
          /\ idxConfig = [INDEX_DEFAULT_CONFIG EXCEPT
                             !.validate = v, !.baseUrl = b,
                             !.maxSitemaps = CfgMaxSitemaps]
    /\ items = <<>>
    /\ heap = <<>>
    /\ view = <<>>
    /\ idxItems = <<>>
    /\ now = MaxTime - 1
    /\ call = NoCall
    /\ namespaces = NoNamespaces

LocationsAddStep ==
    \E u \in UrlInputs :
        /\ idxItems = <<>>
        /\ Len(items) < MaxStore
        /\ Add(u, Undefined, Undefined, Undefined, NoOptions)

LocationsAddItemStep ==
    \E u \in UrlInputs :
        /\ idxItems = <<>>
        /\ Len(items) < MaxStore
        /\ AddItem(<<ItemOf(u)>>, FALSE)

LocationsAddSitemapStep ==
    \E u \in UrlInputs :
        /\ items = <<>>
        /\ AddSitemap(u, Undefined)

NextLocations ==
    \/ LocationsAddStep
    \/ LocationsAddItemStep
    \/ LocationsAddSitemapStep

SpecLocations == InitLocations /\ [][NextLocations]_vars

\* ------------------------------------------- the validation rules (spec)
\* The field paths of the rules an item violates at clock value `clock`.
TimeOf(date) == IF date.kind = "date" THEN date.t ELSE DateParse(date.s)

IndexedPath(name, k, field) == name \o "[" \o ToString(k - 1) \o "]." \o field

ViolatedFields(item, clock) ==
    {f \in {"loc"} : item.loc = "" \/ ~isValidUrl(item.loc)}
    \cup {f \in {"priority"} :
            item.priority.kind # "undefined"
            /\ ~(item.priority.t >= 0 /\ item.priority.t <= 10)}
    \cup {f \in {"lastmod"} :
            item.lastmod.kind # "undefined"
            /\ (TimeOf(item.lastmod) = NaNTime \/ TimeOf(item.lastmod) > clock)}
    \cup {f \in {"changefreq"} :
            item.changefreq.kind # "undefined"
            /\ item.changefreq.s \notin {"always", "hourly", "daily", "weekly",
                                         "monthly", "yearly", "never"}}
    \cup (IF item.images = <<>> THEN {}
          ELSE {IndexedPath("images", k, "image.url") : k \in
                  {k \in DOMAIN item.images[1] : ~isValidUrl(item.images[1][k].url)}})
    \cup (IF item.videos = <<>> THEN {}
          ELSE LET vs == item.videos[1]
               IN {IndexedPath("videos", k, "video.title") : k \in
                     {k \in DOMAIN vs : vs[k].title = ""}}
                  \cup {IndexedPath("videos", k, "video.description") : k \in
                     {k \in DOMAIN vs : vs[k].description = ""}}
                  \cup {IndexedPath("videos", k, "video.thumbnail_url") : k \in
                     {k \in DOMAIN vs : ~isValidUrl(vs[k].thumbnail_url)}}
                  \cup {IndexedPath("videos", k, "video.duration") : k \in
                     {k \in DOMAIN vs : vs[k].duration.kind # "undefined"
                        /\ (vs[k].duration.t < 0 \/ vs[k].duration.t % 10 # 0)}}
                  \cup {IndexedPath("videos", k, "video.rating") : k \in
                     {k \in DOMAIN vs : vs[k].rating.kind # "undefined"
                        /\ (vs[k].rating.t < 0 \/ vs[k].rating.t > 50)}})
    \cup (IF item.translations = <<>> THEN {}
          ELSE LET ts == item.translations[1]
               IN {IndexedPath("translations", k, "translation.language") : k \in
                     {k \in DOMAIN ts : ts[k].language = ""}}
                  \cup {IndexedPath("translations", k, "translation.url") : k \in
                     {k \in DOMAIN ts : ~isValidUrl(ts[k].url)}})
    \cup (IF item.alternates = <<>> THEN {}
          ELSE {IndexedPath("alternates", k, "alternate.url") : k \in
                  {k \in DOMAIN item.alternates[1] :
                     ~isValidUrl(item.alternates[1][k].url)}})
    \cup (IF item.googlenews = <<>> THEN {}
          ELSE LET news == item.googlenews[1]
               IN {f \in {"googlenews.sitename"} : news.sitename = ""}
                  \cup {f \in {"googlenews.language"} : news.language = ""}
                  \cup {f \in {"googlenews.publication_date"} :
                          news.publication_date.kind = "undefined"
                          \/ TimeOf(news.publication_date) = NaNTime})

\* The k-th record of an add / addItem call as the store prepares it.
Prepared(c, k, cfg) ==
    IF c.op = "add"
    THEN BuildItem(c.input[1].url, c.input[1].lastmod, c.input[1].priority,
                   c.input[1].changefreq, c.input[1].options, cfg)
    ELSE ProcessItem(c.input[k], cfg)

\* The records 1..n of the call, prepared.
PreparedItems(c, n, cfg) == [k \in 1..n |-> Prepared(c, k, cfg).item]

IsPrefix(short, long) ==
    Len(short) <= Len(long) /\ \A i \in DOMAIN short : short[i] = long[i]

\* sub can be obtained from seq by deleting elements, keeping the order.
RECURSIVE IsSubsequence(_, _)
IsSubsequence(sub, seq) ==
    IF sub = <<>> THEN TRUE
    ELSE IF seq = <<>> THEN FALSE
    ELSE IF Head(sub) = Head(seq) THEN IsSubsequence(Tail(sub), Tail(seq))
    ELSE IsSubsequence(sub, Tail(seq))

\* ------------------------------------------------------------- claims
\* C1: with validation enabled, an add whose record violates a validation
\* rule fails with the validation error, and a failed add leaves the store's
\* record sequence exactly as it was before the call.
C1_FailedAddLeavesStore ==
    (call.op = "add" /\ config.validate) =>
        LET built == Prepared(call, 1, config)
        IN /\ (~built.threw /\ ViolatedFields(built.item, call.clock) # {}) =>
                 /\ call.threw
                 /\ call.message = "Validation failed: "
                       \o ErrorMessages(validateItem(built.item, call.clock))
           /\ call.threw => GetItems = call.pre

C1_Witness ==
    /\ call.op = "add" /\ config.validate /\ call.threw
    /\ call.message = "Validation failed: loc: URL (loc) is not valid"
    /\ Len(call.pre) > 0
    /\ GetItems = call.pre

\* C2: with validation enabled, addItem on a list stores the records in list
\* order until the first one that fails validation, fails naming that
\* record's location, and leaves the store holding its previous records
\* followed by exactly the records before the failing one.
C2_BatchStopsAtFirstInvalid ==
    (call.op = "addItem" /\ config.validate) =>
        \A k \in DOMAIN call.input :
            ( /\ \A j \in 1..(k - 1) :
                    /\ ~Prepared(call, j, config).threw
                    /\ ViolatedFields(Prepared(call, j, config).item, call.clock) = {}
              /\ ~Prepared(call, k, config).threw
              /\ ViolatedFields(Prepared(call, k, config).item, call.clock) # {} )
            => /\ call.threw
               /\ call.message =
                    "Validation failed for " \o Prepared(call, k, config).item.loc
                    \o ": " \o ErrorMessages(validateItem(Prepared(call, k, config).item,
                                                          call.clock))
               /\ GetItems = call.pre \o PreparedItems(call, k - 1, config)

C2_Witness ==
    /\ call.op = "addItem" /\ config.validate /\ call.threw
    /\ Len(call.input) = 2
    /\ call.message = "Validation failed for /b: loc: URL (loc) is not valid"
    /\ Len(GetItems) = Len(call.pre) + 1

\* The <loc> lines of a rendered document, in document order.
LocLines(lines, locs, cfg) ==
    SelectSeq(lines, LAMBDA line :
        \E u \in locs, i \in {0, 1} :
            line = Indent(i) \o "  <loc>" \o EscapeXml(u, cfg) \o "</loc>")

\* C3: add and addItem only append, clear and removeItems only delete and
\* keep the order of what stays, and getItems(), toTXT() and toXML() list
\* the stored records in that same order.
C3_InsertionOrderKept ==
    /\ call.op \in {"add", "addItem"} => IsPrefix(call.pre, GetItems)
    /\ call.op \in {"clear", "removeItems"} => IsSubsequence(GetItems, call.pre)
    /\ call.op \in {"new", "validate"} => GetItems = call.pre
    /\ ToTXTLines = [i \in DOMAIN GetItems |-> GetItems[i].loc]
    /\ ~ToXML.threw
    /\ LocLines(ToXML.lines, {GetItems[i].loc : i \in DOMAIN GetItems}, config)
         = [i \in DOMAIN GetItems |->
              Indent(IF config.pretty THEN 1 ELSE 0) \o "  <loc>"
              \o EscapeXml(GetItems[i].loc, config) \o "</loc>"]

C3_Witness ==
    /\ call.op = "removeItems"
    /\ Len(call.pre) = 2 /\ Len(GetItems) = 1
    /\ call.pre[1] # call.pre[2]
    /\ GetItems[1] = call.pre[2]

\* C4: whatever a caller does to the value getItems() returned (pushing or
\* popping elements of the array, assigning a field of a record in it), the
\* store is as it was before: getItems(), getItemCount() and toXML() give
\* what they gave before the mutation.
C4_ViewMutationLeavesStore ==
    call.op \in {"view.push", "view.pop", "view.set"} =>
        /\ GetItems = call.pre
        /\ GetItemCount = Len(call.pre)
        /\ ToXML = ToXMLOf(call.pre, config, Undefined, Undefined)

\* C5: addSitemap with an otherwise valid entry fails with the limit error and
\* leaves the stored list unchanged when the index already holds maxSitemaps
\* entries, with validation enabled or disabled; below the limit it appends
\* exactly that one entry.
C5_HardCapWhateverValidation ==
    call.op = "addSitemap" =>
        LET built == BuildIndexItem(call.input[1].loc, call.input[1].lastmod,
                                    idxConfig)
            valid == /\ ~built.threw
                     /\ isValidUrl(built.item.loc)
                     /\ built.item.lastmod.kind # "undefined"
                           => TimeOf(built.item.lastmod) # NaNTime
        IN valid =>
             IF Len(call.pre) >= idxConfig.maxSitemaps
             THEN /\ call.threw
                  /\ call.message = "Maximum number of sitemaps ("
                        \o ToString(idxConfig.maxSitemaps) \o ") exceeded"
                  /\ idxItems = call.pre
             ELSE /\ ~call.threw
                  /\ idxItems = call.pre \o <<built.item>>

C5_Witness ==
    /\ call.op = "addSitemap"
    /\ ~idxConfig.validate
    /\ call.input[1] = [loc |-> "https://example.com/a#top",
                        lastmod |-> Str(ToISOString(MaxTime))]
    /\ Len(call.pre) = idxConfig.maxSitemaps
    /\ call.threw
    /\ idxItems = call.pre

\* C6: shouldSplit() is true exactly from maxItems stored records on, and the
\* threshold is advisory: an add or addItem whose records are acceptable
\* succeeds whatever the count, so the count grows past maxItems.
C6_ShouldSplitAdvisory ==
    /\ GetItemCount >= config.maxItems => ShouldSplit
    /\ GetItemCount < config.maxItems => ~ShouldSplit
    /\ (call.op \in {"add", "addItem"}
        /\ \A k \in DOMAIN call.input :
              /\ ~Prepared(call, k, config).threw
              /\ config.validate =>
                    ViolatedFields(Prepared(call, k, config).item, call.clock) = {})
       => /\ ~call.threw
          /\ GetItemCount = Len(call.pre) + Len(call.input)

C6_Witness ==
    /\ call.op = "add" /\ ~call.threw
    /\ Len(call.pre) >= config.maxItems
    /\ GetItemCount > config.maxItems
    /\ ShouldSplit

\* C7 as claimed: with validation disabled add and addItem never fail and
\* store one record per input record.
C7_NeverFailsWhenDisabled ==
    (call.op \in {"add", "addItem"} /\ ~config.validate) =>
        /\ ~call.threw
        /\ GetItemCount = Len(call.pre) + Len(call.input)

\* C7 amended: with validation disabled add and addItem fail only on a
\* lastmod that is an Invalid Date object (formatDate's error, the records
\* before it stored); in every other case they store one record per input
\* record, whatever the url and the lastmod string.
C7_FailsOnlyOnInvalidDateObject ==
    (call.op \in {"add", "addItem"} /\ ~config.validate) =>
        LET bad == {k \in DOMAIN call.input : call.input[k].lastmod = InvalidDateObj}
            first == CHOOSE k \in bad : \A j \in bad : k <= j
        IN IF bad = {}
           THEN /\ ~call.threw
                /\ GetItems = call.pre
                               \o PreparedItems(call, Len(call.input), config)
           ELSE /\ call.threw
                /\ call.message = "Invalid Date object"
                /\ GetItems = call.pre \o PreparedItems(call, first - 1, config)

C7_Witness ==
    /\ call.op = "add" /\ ~config.validate /\ ~call.threw
    /\ call.input[1].url = ""
    /\ call.input[1].lastmod = Str("invalid-date")
    /\ GetItemCount = Len(call.pre) + 1

\* C8: validate() returns, in store order, the errors validateItem gives for
\* each stored record i with the field prefixed by item[i]. (i from 0); it is
\* empty exactly when every stored record passes, and the store is unchanged.
C8_ValidateReportsEveryRecord ==
    call.op = "validate" =>
        LET recs == GetItems
            errs(i) == validateItem(recs[i], call.clock)
            Offset(i) == Len(Flatten([j \in 1..(i - 1) |-> errs(j)]))
        IN /\ recs = call.pre
           /\ Len(call.result) = Offset(Len(recs) + 1)
           /\ \A i \in DOMAIN recs : \A j \in DOMAIN errs(i) :
                 call.result[Offset(i) + j] =
                    [errs(i)[j] EXCEPT !.field = "item[" \o ToString(i - 1) \o "]." \o @]
           /\ (call.result = <<>>) <=> (\A i \in DOMAIN recs : errs(i) = <<>>)

C8_Witness ==
    /\ call.op = "validate"
    /\ Len(GetItems) = 2
    /\ validateItem(GetItems[1], call.clock) = <<>>
    /\ Len(call.result) = 2
    /\ call.result[1].field = "item[1].loc"
    /\ call.result[2].field = "item[1].lastmod"

\* C9: validateItem never raises and never stops early: the fields of the
\* errors it returns are exactly the rules the record violates (top-level
\* fields, every element of every nested array, news metadata), so the list
\* is empty exactly when no rule is violated; and the validation failure add
\* raises carries "field: message" of every one of these errors.
C9_EveryViolationReported ==
    /\ call.op = "validateItem" =>
          /\ ~call.threw
          /\ {e.field : e \in Range(call.result)}
                = ViolatedFields(call.input[1], call.clock)
          /\ (call.result = <<>>)
                <=> (ViolatedFields(call.input[1], call.clock) = {})
    /\ (call.op = "add" /\ config.validate /\ ~Prepared(call, 1, config).threw) =>
          LET item == Prepared(call, 1, config).item
              errors == validateItem(item, call.clock)
          IN /\ {e.field : e \in Range(errors)} = ViolatedFields(item, call.clock)
             /\ call.threw <=> (ViolatedFields(item, call.clock) # {})
             /\ call.threw =>
                   call.message = "Validation failed: "
                      \o Join([i \in DOMAIN errors |->
                                 errors[i].field \o ": " \o errors[i].message], ", ")

C9_Witness ==
    /\ call.op = "validateItem"
    /\ {"loc", "priority", "lastmod", "changefreq",
        "images[0].image.url", "images[2].image.url",
        "videos[0].video.title", "videos[0].video.rating",
        "videos[1].video.thumbnail_url",
        "translations[0].translation.language", "translations[2].translation.url",
        "alternates[1].alternate.url",
        "googlenews.sitename", "googlenews.publication_date"}
          \subseteq {e.field : e \in Range(call.result)}
    /\ "images[1].image.url" \notin {e.field : e \in Range(call.result)}

\* C10: validateItem reports an error on lastmod exactly when lastmod is
\* present and either does not parse or lies strictly after the clock (an
\* instant equal to the clock is accepted); a news publication date that
\* parses is accepted even when it lies after the clock.
C10_LastmodNotInFuture ==
    call.op = "validateItem" =>
        LET item == call.input[1]
            fields == {e.field : e \in Range(call.result)}
        IN /\ ("lastmod" \in fields)
                <=> (/\ item.lastmod.kind # "undefined"
                     /\ (TimeOf(item.lastmod) = NaNTime
                         \/ TimeOf(item.lastmod) > call.clock))
           /\ (/\ item.googlenews # <<>>
               /\ item.googlenews[1].publication_date.kind # "undefined"
               /\ TimeOf(item.googlenews[1].publication_date) # NaNTime)
                => "googlenews.publication_date" \notin fields

C10_Witness ==
    /\ call.op = "validateItem"
    /\ call.input[1].lastmod = Str(ToISOString(call.clock))
    /\ call.input[1].googlenews # <<>>
    /\ TimeOf(call.input[1].googlenews[1].publication_date) > call.clock
    /\ "lastmod" \notin {e.field : e \in Range(call.result)}
    /\ "googlenews.publication_date" \notin {e.field : e \in Range(call.result)}

\* ------------------------------------------------- rendering, as specified
\* The pretty flag and the stylesheet in force for the rendering call c.
EffectivePretty(c) ==
    IF c.input[Len(c.input)].pretty.kind = "undefined" THEN c.cfg.pretty
    ELSE c.input[Len(c.input)].pretty.s = "true"

EffectiveStylesheet(c) ==
    IF c.input[Len(c.input)].stylesheet.kind = "undefined" THEN c.cfg.stylesheet
    ELSE c.input[Len(c.input)].stylesheet.s

\* C11: render(format, options) gives what toXML(options) gives when format
\* is 'xml'; for any other format it fails with the not-implemented error
\* that names the format; the records and the configuration are the same
\* after the call as before it.
C11_RenderOnlyXml ==
    call.op = "render" =>
        LET format == call.input[1]
            options == call.input[2]
            xml == ToXMLOf(call.pre, call.cfg, options.pretty, options.stylesheet)
        IN /\ GetItems = call.pre
           /\ config = call.cfg
           /\ format = "xml" =>
                 /\ call.threw = xml.threw
                 /\ call.message = xml.message
                 /\ call.result = xml.lines
           /\ format # "xml" =>
                 /\ call.threw
                 /\ call.message = "Format '" \o format
                       \o "' not yet implemented. Currently only 'xml' is supported."

C11_Witness ==
    /\ call.op = "render"
    /\ call.input[1] = "txt"
    /\ call.threw
    /\ Len(call.pre) = 2
    /\ GetItems = call.pre

\* C12: toXML(options), on the sitemap and on the index, renders with
\* options.pretty and options.stylesheet where they are given and with the
\* configured values where they are not; the call leaves the configuration
\* and the records as they were, so toXML() afterwards renders with the
\* configured values.
C12_OptionsOverrideOneCall ==
    /\ call.op = "toXML" =>
          /\ config = call.cfg
          /\ GetItems = call.pre
          /\ ~call.threw =>
                call.result =
                   ToXMLOf(call.pre,
                           [call.cfg EXCEPT !.pretty = EffectivePretty(call),
                                            !.stylesheet = EffectiveStylesheet(call)],
                           Undefined, Undefined).lines
          /\ ToXML = ToXMLOf(call.pre, call.cfg, Undefined, Undefined)
    /\ call.op = "indexToXML" =>
          /\ idxConfig = call.cfg
          /\ idxItems = call.pre
          /\ call.result =
                IndexToXMLOf(call.pre,
                             [call.cfg EXCEPT !.pretty = EffectivePretty(call),
                                              !.stylesheet = EffectiveStylesheet(call)],
                             Undefined, Undefined)
          /\ IndexToXMLOf(idxItems, idxConfig, Undefined, Undefined)
                = IndexToXMLOf(call.pre, call.cfg, Undefined, Undefined)

C12_Witness ==
    /\ call.op = "toXML"
    /\ ~call.threw
    /\ Len(call.pre) = 2
    /\ ~config.pretty /\ call.input[1].pretty = Str("true")
    /\ config.stylesheet = "" /\ call.input[1].stylesheet = Str("a&b.xsl")
    /\ call.result # ToXML.lines

\* The line of the rendering call c that holds the root element's start tag:
\* it follows the XML declaration and the stylesheet instruction, if any.
RootLine(c) == IF EffectiveStylesheet(c) = "" THEN 2 ELSE 3

\* The orderings of the elements of a finite set.
Orderings(S) ==
    {f \in [1..Cardinality(S) -> S] : \A x \in S : \E i \in DOMAIN f : f[i] = x}

\* The namespace declarations the records call for.
NeededNamespaces(recs) ==
    {d \in {" xmlns:image=\"http://www.google.com/schemas/sitemap-image/1.1\""} :
        \E i \in DOMAIN recs :
            recs[i].images # <<>> /\ Len(recs[i].images[1]) >= 1}
    \cup
    {d \in {" xmlns:video=\"http://www.google.com/schemas/sitemap-video/1.1\""} :
        \E i \in DOMAIN recs :
            recs[i].videos # <<>> /\ Len(recs[i].videos[1]) >= 1}
    \cup
    {d \in {" xmlns:xhtml=\"http://www.w3.org/1999/xhtml\""} :
        \E i \in DOMAIN recs :
            \/ recs[i].translations # <<>> /\ Len(recs[i].translations[1]) >= 1
            \/ recs[i].alternates # <<>> /\ Len(recs[i].alternates[1]) >= 1}
    \cup
    {d \in {" xmlns:news=\"http://www.google.com/schemas/sitemap-news/0.9\""} :
        \E i \in DOMAIN recs : recs[i].googlenews # <<>>}

\* C13: the root element toXML writes declares, next to the sitemap
\* namespace, exactly the extension namespaces the stored records call for
\* (image: some record with at least one image; video: at least one video;
\* xhtml: at least one translation or alternate; news: news metadata), each
\* once; records whose lists are all empty call for none.
C13_NamespacesWhenUsed ==
    (call.op = "toXML" /\ ~call.threw) =>
        call.result[RootLine(call)] \in
           {"<urlset xmlns=\"http://www.sitemaps.org/schemas/sitemap/0.9\""
              \o Join(f, "") \o ">" : f \in Orderings(NeededNamespaces(call.pre))}

C13_Witness ==
    /\ call.op = "toXML" /\ ~call.threw
    /\ Len(call.pre) = 2
    /\ call.pre[1].images = <<<<>>>> /\ call.pre[1].videos = <<<<>>>>
    /\ call.pre[1].translations = <<<<>>>> /\ call.pre[1].alternates = <<<<>>>>
    /\ call.pre[2].images # <<>> /\ Len(call.pre[2].images[1]) = 1
    /\ call.pre[2].videos = <<>>
    /\ call.result[RootLine(call)] =
          "<urlset xmlns=\"http://www.sitemaps.org/schemas/sitemap/0.9\""
          \o " xmlns:image=\"http://www.google.com/schemas/sitemap-image/1.1\">"

\* n units of indentation, of two spaces each.
RECURSIVE Spaces(_)
Spaces(n) == IF n = 0 THEN "" ELSE "  " \o Spaces(n - 1)

\* One line of the document: an element (or a start or end tag on a line of
\* its own) at a nesting level below the root, <url> being at level 1.
Element(level, text) == [level |-> level, text |-> text]

\* The texts of the model with each of & < > " ' replaced by its entity.
Escaped(text) ==
    CASE text = "Tom & Jerry" -> "Tom &amp; Jerry"
      [] text = "a<b>'c'" -> "a&lt;b&gt;&#39;c&#39;"
      [] text = "say \"hi\"" -> "say &quot;hi&quot;"
      [] text = "https://example.com/a&b" -> "https://example.com/a&amp;b"
      [] text = "a&b.xsl" -> "a&amp;b.xsl"
      [] OTHER -> text

Written(text, escaping) == IF escaping THEN Escaped(text) ELSE text

\* Whether a record has an optional textual field: with emptyCounts, as soon
\* as the field is defined; without, when its value is a non-empty string.
HasField(v, emptyCounts) ==
    IF emptyCounts THEN v.kind # "undefined" ELSE v.kind = "string" /\ v.s # ""

ImageElements(image, escaping, emptyCounts) ==
    <<Element(2, "<image:image>"),
      Element(3, "<image:loc>" \o Written(image.url, escaping) \o "</image:loc>")>>
    \o (IF HasField(image.title, emptyCounts)
        THEN <<Element(3, "<image:title>" \o Written(image.title.s, escaping)
                          \o "</image:title>")>>
        ELSE <<>>)
    \o (IF HasField(image.caption, emptyCounts)
        THEN <<Element(3, "<image:caption>" \o Written(image.caption.s, escaping)
                          \o "</image:caption>")>>
        ELSE <<>>)
    \o <<Element(2, "</image:image>")>>

VideoElements(video, escaping) ==
    <<Element(2, "<video:video>"),
      Element(3, "<video:thumbnail_loc>" \o Written(video.thumbnail_url, escaping)
                 \o "</video:thumbnail_loc>"),
      Element(3, "<video:title><![CDATA[" \o video.title \o "]]></video:title>"),
      Element(3, "<video:description><![CDATA[" \o video.description
                 \o "]]></video:description>")>>
    \o (IF video.duration.kind # "undefined"
        THEN <<Element(3, "<video:duration>" \o NumberToString(video.duration.t)
                          \o "</video:duration>")>>
        ELSE <<>>)
    \o <<Element(2, "</video:video>")>>

TranslationElement(trans, escaping) ==
    Element(2, "<xhtml:link rel=\"alternate\" hreflang=\"" \o trans.language
               \o "\" href=\"" \o Written(trans.url, escaping) \o "\" />")

AlternateElement(alt, escaping, emptyCounts) ==
    Element(2, IF HasField(alt.media, emptyCounts)
               THEN "<xhtml:link rel=\"alternate\" media=\"" \o alt.media.s
                    \o "\" href=\"" \o Written(alt.url, escaping) \o "\" />"
               ELSE "<xhtml:link rel=\"alternate\" href=\""
                    \o Written(alt.url, escaping) \o "\" />")

NewsElements(news, escaping, emptyCounts) ==
    <<Element(2, "<news:news>"),
      Element(3, "<news:publication>"),
      Element(4, "<news:name>" \o Written(news.sitename, escaping) \o "</news:name>"),
      Element(4, "<news:language>" \o news.language \o "</news:language>"),
      Element(3, "</news:publication>"),
      Element(3, "<news:publication_date>"
                 \o (IF news.publication_date.kind = "string"
                     THEN news.publication_date.s
                     ELSE ToISOString(news.publication_date.t))
                 \o "</news:publication_date>")>>
    \o (IF HasField(news.title, emptyCounts)
        THEN <<Element(3, "<news:title>" \o Written(news.title.s, escaping)
                          \o "</news:title>")>>
        ELSE <<>>)
    \o <<Element(2, "</news:news>")>>

\* The <url> block of a record: its children in the fixed order.
UrlElements(item, escaping, emptyCounts) ==
    <<Element(1, "<url>"),
      Element(2, "<loc>" \o Written(item.loc, escaping) \o "</loc>")>>
    \o (IF HasField(item.lastmod, emptyCounts)
        THEN <<Element(2, "<lastmod>" \o item.lastmod.s \o "</lastmod>")>> ELSE <<>>)
    \o (IF HasField(item.changefreq, emptyCounts)
        THEN <<Element(2, "<changefreq>" \o item.changefreq.s \o "</changefreq>")>>
        ELSE <<>>)
    \o (IF item.priority.kind # "undefined"
        THEN <<Element(2, "<priority>" \o NumberToString(item.priority.t)
                          \o "</priority>")>>
        ELSE <<>>)
    \o (IF item.images = <<>> THEN <<>>
        ELSE Flatten([k \in DOMAIN item.images[1] |->
                        ImageElements(item.images[1][k], escaping, emptyCounts)]))
    \o (IF item.videos = <<>> THEN <<>>
        ELSE Flatten([k \in DOMAIN item.videos[1] |->
                        VideoElements(item.videos[1][k], escaping)]))
    \o (IF item.translations = <<>> THEN <<>>
        ELSE [k \in DOMAIN item.translations[1] |->
                TranslationElement(item.translations[1][k], escaping)])
    \o (IF item.alternates = <<>> THEN <<>>
        ELSE [k \in DOMAIN item.alternates[1] |->
                AlternateElement(item.alternates[1][k], escaping, emptyCounts)])
    \o (IF item.googlenews = <<>> THEN <<>>
        ELSE NewsElements(item.googlenews[1], escaping, emptyCounts))
    \o <<Element(1, "</url>")>>

\* The <url> blocks of the records, in store order.
BodyElements(recs, escaping, emptyCounts) ==
    Flatten([i \in DOMAIN recs |-> UrlElements(recs[i], escaping, emptyCounts)])

\* The lines of the rendering call c between the root element's tags.
BodyLines(c) == SubSeq(c.result, RootLine(c) + 1, Len(c.result) - 1)

\* The lines are the elements in order, each after some indentation.
MatchesElements(lines, elements) ==
    /\ Len(lines) = Len(elements)
    /\ \A i \in DOMAIN lines :
          \E k \in 0..elements[i].level : lines[i] = Spaces(k) \o elements[i].text

\* C14 as stated: one <url> block per record, children in the fixed order,
\* every optional element present exactly when the record has the field.
C14_ElementsExactlyWhenDefined ==
    (call.op = "toXML" /\ ~call.threw) =>
        MatchesElements(BodyLines(call),
                        BodyElements(call.pre, call.cfg.escaping, TRUE))

\* C14: toXML writes one <url> block per stored record, in store order, with
\* the children in the order loc, lastmod, changefreq, priority, images,
\* videos, translations, alternates, news; loc once; a textual optional
\* element (and the media attribute of an alternate) exactly when the record
\* holds a non-empty value for it, and priority whenever it is defined, 0
\* included.
C14_ElementsInFixedOrder ==
    (call.op = "toXML" /\ ~call.threw) =>
        MatchesElements(BodyLines(call),
                        BodyElements(call.pre, call.cfg.escaping, FALSE))

C14_Witness ==
    /\ call.op = "toXML" /\ ~call.threw
    /\ Len(call.pre) = 2
    /\ call.pre[1].priority = Num(0)
    /\ call.pre[1].alternates # <<>> /\ Len(call.pre[1].alternates[1]) = 2
    /\ call.pre[1].googlenews # <<>>
    /\ call.pre[2].lastmod = Str("") /\ call.pre[2].changefreq = Str("")
    /\ \E i \in DOMAIN call.result, k \in 0..2 :
          call.result[i] = Spaces(k) \o "<priority>0</priority>"

\* A text is written at a nesting level by the rendering call c.
InOutput(c, level, text) ==
    \E i \in DOMAIN c.result, k \in 0..level : c.result[i] = Spaces(k) \o text

\* C15: with escaping on, a location, title or caption is written with each of
\* & < > " ' replaced by its entity (so unchanged when it has none of them);
\* with escaping off it is written as it is.  The values are the record loc,
\* image loc, title and caption, video thumbnail loc, translation and
\* alternate href, news site name and title, and the loc of an index entry.
C15_EscapedValues ==
    /\ (call.op = "toXML" /\ ~call.threw) =>
          \A r \in DOMAIN call.pre :
             LET item == call.pre[r]
                 e == call.cfg.escaping
             IN /\ InOutput(call, 2, "<loc>" \o Written(item.loc, e) \o "</loc>")
                /\ item.images # <<>> =>
                      \A k \in DOMAIN item.images[1] :
                         LET image == item.images[1][k]
                         IN /\ InOutput(call, 3, "<image:loc>"
                                  \o Written(image.url, e) \o "</image:loc>")
                            /\ (image.title.kind = "string" /\ image.title.s # "") =>
                                  InOutput(call, 3, "<image:title>"
                                     \o Written(image.title.s, e) \o "</image:title>")
                            /\ (image.caption.kind = "string" /\ image.caption.s # "") =>
                                  InOutput(call, 3, "<image:caption>"
                                     \o Written(image.caption.s, e) \o "</image:caption>")
                /\ item.videos # <<>> =>
                      \A k \in DOMAIN item.videos[1] :
                         InOutput(call, 3, "<video:thumbnail_loc>"
                            \o Written(item.videos[1][k].thumbnail_url, e)
                            \o "</video:thumbnail_loc>")
                /\ item.translations # <<>> =>
                      \A k \in DOMAIN item.translations[1] :
                         InOutput(call, 2,
                            "<xhtml:link rel=\"alternate\" hreflang=\""
                            \o item.translations[1][k].language \o "\" href=\""
                            \o Written(item.translations[1][k].url, e) \o "\" />")
                /\ item.alternates # <<>> =>
                      \A k \in DOMAIN item.alternates[1] :
                         \E m \in {"", " media=\"handheld\""} :
                            InOutput(call, 2, "<xhtml:link rel=\"alternate\"" \o m
                               \o " href=\"" \o Written(item.alternates[1][k].url, e)
                               \o "\" />")
                /\ item.googlenews # <<>> =>
                      /\ InOutput(call, 4, "<news:name>"
                            \o Written(item.googlenews[1].sitename, e) \o "</news:name>")
                      /\ (item.googlenews[1].title.kind = "string"
                             /\ item.googlenews[1].title.s # "") =>
                            InOutput(call, 3, "<news:title>"
                               \o Written(item.googlenews[1].title.s, e)
                               \o "</news:title>")
    /\ call.op = "indexToXML" =>
          \A r \in DOMAIN call.pre :
             InOutput(call, 2, "<loc>" \o Written(call.pre[r].loc, call.cfg.escaping)
                               \o "</loc>")

C15_Witness ==
    /\ call.op = "toXML" /\ ~call.threw /\ call.cfg.escaping
    /\ Len(call.pre) = 2
    /\ call.pre[1].loc = "a<b>'c'"
    /\ call.pre[2].googlenews # <<>>
    /\ call.pre[2].googlenews[1].title = Str("say \"hi\"")
    /\ call.pre[2].images # <<>>
    /\ call.pre[2].images[1][1].title = Str("Tom & Jerry")
    /\ InOutput(call, 2, "<loc>a&lt;b&gt;&#39;c&#39;</loc>")
    /\ InOutput(call, 3, "<news:title>say &quot;hi&quot;</news:title>")
    /\ InOutput(call, 3, "<image:title>Tom &amp; Jerry</image:title>")
    /\ InOutput(call, 3, "<image:loc>https://example.com/img.png</image:loc>")

\* C16 as stated: two spaces per nesting level in pretty mode, no indentation
\* at all in compact mode.
C16_CompactHasNoIndentation ==
    (call.op = "toXML" /\ ~call.threw) =>
        LET elements == BodyElements(call.pre, call.cfg.escaping, FALSE)
            lines == BodyLines(call)
        IN /\ Len(lines) = Len(elements)
           /\ \A i \in DOMAIN lines :
                 lines[i] = Spaces(IF EffectivePretty(call) THEN elements[i].level
                                   ELSE 0) \o elements[i].text

\* C16: in pretty mode every element is indented by two spaces per nesting
\* level below the root; in compact mode the <url> tags are not indented and
\* every element inside a <url> block is indented by two spaces per nesting
\* level below <url>.  The declaration and the root's end tag are never
\* indented.
C16_Indentation ==
    (call.op = "toXML" /\ ~call.threw) =>
        LET elements == BodyElements(call.pre, call.cfg.escaping, FALSE)
            lines == BodyLines(call)
        IN /\ Len(lines) = Len(elements)
           /\ \A i \in DOMAIN lines :
                 lines[i] = Spaces(IF EffectivePretty(call) THEN elements[i].level
                                   ELSE elements[i].level - 1) \o elements[i].text
           /\ call.result[1] = "<?xml version=\"1.0\" encoding=\"UTF-8\"?>"
           /\ call.result[Len(call.result)] = "</urlset>"

C16_Witness ==
    /\ call.op = "toXML" /\ ~call.threw /\ ~EffectivePretty(call)
    /\ Len(call.pre) = 2
    /\ call.pre[1].googlenews # <<>> /\ call.pre[1].images # <<>>
    /\ \E i \in DOMAIN call.result :
          /\ call.result[i] = "<url>"
          /\ call.result[i + 1] = "  <loc>https://example.com/a</loc>"
    /\ \E i \in DOMAIN call.result :
          call.result[i] = "      <news:name>Example News</news:name>"

\* ------------------------------------------- stored locations, as specified
\* The record the last successful add appended.
LastStored == GetItems[Len(GetItems)]

\* u resolved against a base: the serialised form of new URL(u, base).
ResolvedAgainst(u, base) == Href(URLParseBase(u, base))

\* The serialised form of an absolute URL without its fragment.
WithoutFragment(u) ==
    URLParse(u).protocol \o "//" \o URLParse(u).hostname \o URLParse(u).pathname

\* The rendering of the store holds a location in its last <url> block.
LastLocWritten(loc) ==
    LET lines == ToXML.lines
    IN \E i \in DOMAIN lines :
          /\ lines[i] \in {Spaces(k) \o "<loc>" \o Written(loc, config.escaping)
                              \o "</loc>" : k \in 0..2}
          /\ \A j \in DOMAIN lines :
                (j > i) => lines[j] \in {Spaces(k) \o t : k \in 0..1,
                                         t \in {"</url>", "</urlset>"}}

\* C17 as stated: a valid absolute u is stored and written byte-identical,
\* whatever the base; any other u is stored and written resolved against the
\* configured base.
C17_AbsoluteStoredAsGiven ==
    (call.op = "add" /\ ~call.threw) =>
        LET u == call.input[1].url
        IN /\ isValidUrl(u) => LastStored.loc = u /\ LastLocWritten(u)
           /\ (~isValidUrl(u) /\ config.baseUrl # "") =>
                 /\ LastStored.loc = ResolvedAgainst(u, config.baseUrl)
                 /\ LastLocWritten(ResolvedAgainst(u, config.baseUrl))

\* C17: the location add(u) stores, and toXML then writes in <loc>, is, when
\* u is a valid absolute URL, its serialised form without the fragment (with
\* the path / when u has none), whatever the base; and, when u is not a valid
\* absolute URL and a base is configured, u resolved against the base if u is
\* not empty, and the empty string if it is.
C17_StoredLocation ==
    (call.op = "add" /\ ~call.threw) =>
        LET u == call.input[1].url
        IN /\ isValidUrl(u) =>
                 LastStored.loc = WithoutFragment(u) /\ LastLocWritten(WithoutFragment(u))
           /\ (~isValidUrl(u) /\ config.baseUrl # "" /\ u # "") =>
                 /\ LastStored.loc = ResolvedAgainst(u, config.baseUrl)
                 /\ LastLocWritten(ResolvedAgainst(u, config.baseUrl))
           /\ (~isValidUrl(u) /\ config.baseUrl # "" /\ u = "") =>
                 LastStored.loc = "" /\ LastLocWritten("")

C17_Witness ==
    /\ call.op = "add" /\ ~call.threw
    /\ call.input[1].url = "https://example.com/a#top"
    /\ config.baseUrl = "https://example.com"
    /\ Len(GetItems) = 2
    /\ GetItems[1].loc = "https://example.com/b#sec"
    /\ GetItems[2].loc = "https://example.com/a"
    /\ LastLocWritten("https://example.com/a")

\* ------------------------------------------- last-modified, as specified
\* The canonical timestamp of a date given as a string.
CanonicalOf(s) == ToISOString(DateParse(s))

\* add stores a lastmod given as a date value as its canonical timestamp.
DateStoredCanonical ==
    (call.op = "add" /\ ~call.threw /\ call.input[1].lastmod.kind = "date") =>
        LastStored.lastmod = Str(ToISOString(call.input[1].lastmod.t))

\* C18 as stated: a date value is stored as its canonical timestamp, and
\* every <lastmod> written carries the canonical timestamp of the record's
\* lastmod, however it was supplied.
C18_LastmodAlwaysCanonical ==
    /\ DateStoredCanonical
    /\ (call.op = "toXML" /\ ~call.threw) =>
          \A r \in DOMAIN call.pre :
             (call.pre[r].lastmod.kind = "string" /\ call.pre[r].lastmod.s # ""
                /\ DateParse(call.pre[r].lastmod.s) # NaNTime) =>
                   InOutput(call, 2, "<lastmod>" \o CanonicalOf(call.pre[r].lastmod.s)
                                     \o "</lastmod>")

\* C18: a lastmod supplied as a date value is stored as its canonical
\* timestamp at insertion, and every <lastmod> written carries the string the
\* record stores: that canonical timestamp for a date value, and the string
\* as it was supplied for a preformatted string.
C18_LastmodAsStored ==
    /\ DateStoredCanonical
    /\ (call.op = "add" /\ ~call.threw /\ call.input[1].lastmod.kind = "string") =>
          LastStored.lastmod = call.input[1].lastmod
    /\ (call.op = "toXML" /\ ~call.threw) =>
          /\ \A r \in DOMAIN call.pre :
                (call.pre[r].lastmod.kind = "string" /\ call.pre[r].lastmod.s # "") =>
                   InOutput(call, 2, "<lastmod>" \o call.pre[r].lastmod.s
                                     \o "</lastmod>")
          /\ \A i \in DOMAIN call.result :
                \A t \in Instants :
                   (\E k \in 0..2 : call.result[i] =
                       Spaces(k) \o "<lastmod>" \o ToISOString(t) \o "</lastmod>") =>
                      \E r \in DOMAIN call.pre :
                         call.pre[r].lastmod = Str(ToISOString(t))

C18_Witness ==
    /\ call.op = "toXML" /\ ~call.threw
    /\ Len(call.pre) = 2
    /\ call.pre[1].lastmod = Str(ToISOString(0))
    /\ call.pre[2].lastmod = Str(DateOnlyString(0))
    /\ InOutput(call, 2, "<lastmod>2024-01-01T00:00:00.000Z</lastmod>")
    /\ InOutput(call, 2, "<lastmod>2024-01-01</lastmod>")

\* ------------------------------------------------- removal, as specified
\* The positions of the records of the call's store for which p is false.
KeptPositions(c) ==
    {i \in DOMAIN c.pre : ~Holds(c.input[1], c.pre[i], i)}

\* The j-th of a set of positions, in increasing order.
NthOf(K, j) == CHOOSE i \in K : Cardinality({x \in K : x < i}) = j - 1

\* C19: after removeItems(p) the store holds exactly the records of the
\* previous store for which p is false, in their previous relative order,
\* equal records included, and the count has dropped by the number of
\* records for which p is true.
C19_RemoveKeepsOthersInOrder ==
    call.op = "removeItems" =>
        LET K == KeptPositions(call)
            removed == {i \in DOMAIN call.pre : Holds(call.input[1], call.pre[i], i)}
        IN /\ ~call.threw
           /\ Len(GetItems) = Cardinality(K)
           /\ \A j \in DOMAIN GetItems : GetItems[j] = call.pre[NthOf(K, j)]
           /\ GetItemCount = Len(call.pre) - Cardinality(removed)

C19_Witness ==
    /\ call.op = "removeItems" /\ call.input[1] = "withLastmod"
    /\ Len(call.pre) = 3
    /\ call.pre[1].loc = "/b" /\ call.pre[1].lastmod.kind = "undefined"
    /\ call.pre[2].lastmod.kind = "string"
    /\ call.pre[3].loc = "https://example.com/a" /\ call.pre[3].lastmod.kind = "undefined"
    /\ GetItems = <<call.pre[1], call.pre[3]>>
    /\ GetItemCount = 2

\* ------------------------------------------- repeated calls, as specified
\* The step is a call that repeats the failed call before it: the same
\* operation with the same arguments on a store in the same state, later.
RetryOfFailedCall ==
    /\ call.op \in {"add", "addItem", "addSitemap"}
    /\ call.threw
    /\ call' # call
    /\ call'.op = call.op
    /\ call'.input = call.input
    /\ call'.pre = call.pre
    /\ call'.cfg = call.cfg

\* A lastmod among the arguments lay after the clock at the failed call and
\* does not at the retry.
FutureLastmodHasPassed ==
    \E i \in DOMAIN call.input :
        /\ TimeOf(call.input[i].lastmod) # NaNTime
        /\ TimeOf(call.input[i].lastmod) > call.clock
        /\ TimeOf(call.input[i].lastmod) <= call'.clock

\* C20 as stated: a failed add, addItem or addSitemap call, repeated with the
\* same arguments on a store in the same state, fails again with the same
\* error, however much later.
C20_FailureRecursWhenever ==
    [][RetryOfFailedCall => (call'.threw /\ call'.message = call.message)]_vars

\* C20: a failed add, addItem or addSitemap call, repeated with the same
\* arguments on a store in the same state, fails again with the same error,
\* however much later, unless it is an add or addItem on a validating store
\* with a lastmod that lay in the future at the failed call and no longer
\* does at the retry; a failed addSitemap always fails again.
C20_FailureRecursButForFutureDates ==
    [][RetryOfFailedCall =>
          ((call.op # "addSitemap" /\ call.cfg.validate /\ FutureLastmodHasPassed)
           \/ (call'.threw /\ call'.message = call.message))]_vars

\* A validating store has rejected add(u, d) because d lay in the future, the
\* store is as it was, and the clock has reached d since: the same call made
\* now is accepted.
C20_Witness ==
    /\ call.op = "add" /\ call.threw /\ call.cfg.validate
    /\ call.input[1].lastmod = Str(ToISOString(MaxTime))
    /\ call.clock < MaxTime /\ now = MaxTime
    /\ GetItems = call.pre /\ config = call.cfg
    /\ call.message = "Validation failed: lastmod: Last modification date cannot be in the future"
    /\ validateItem(BuildItem(call.input[1].url, call.input[1].lastmod,
                              call.input[1].priority, call.input[1].changefreq,
                              call.input[1].options, config).item, now) = <<>>

\* ------------------------------------------- two instances, as specified
\* C21: nothing done to one instance, and no mutation of a value its
\* getItems() or getConfig() returned, changes what a second instance
\* shows: the second instance's configuration and records are those it was
\* constructed with.
C21_InstancesIndependent ==
    /\ PeerReadConfig = [DEFAULT_CONFIG EXCEPT !.namespaces = {}]
    /\ PeerItems = <<>>

\* --------------------------------------------- the check of addSitemap
\* The entry addSitemap builds from the arguments of the recorded call.
BuiltByCall == BuildIndexItem(call.input[1].loc, call.input[1].lastmod, call.cfg)

\* The recorded addSitemap call got past its validation step.
PassedCheck == ~call.threw \/ call.message = LimitMessage(call.cfg)

\* C22: on a validating index addSitemap stores an entry only if its location
\* is present and a valid URL and its lastmod, when one was supplied, parses
\* as a date; and the check it applies lets through exactly the entries for
\* which DataValidator.validateIndexItem reports no error.
C22_CheckAgreesWithValidator ==
    (call.op = "addSitemap" /\ call.cfg.validate) =>
        /\ ~call.threw =>
              /\ call.input[1].loc # ""
              /\ isValidUrl(BuiltByCall.item.loc)
              /\ call.input[1].lastmod.kind # "undefined" =>
                    TimeOf(call.input[1].lastmod) # NaNTime
        /\ ~BuiltByCall.threw =>
              (PassedCheck <=> validateIndexItem(BuiltByCall.item) = <<>>)

\* ------------------------------------------------ normalizeUrl, isSameDay
\* C23: normalizeUrl is idempotent: normalizing the normalized form of a valid
\* URL gives that form again; a string that is not a valid URL is returned
\* unchanged.
C23_NormalizeUrlIdempotent ==
    call.op = "normalizeUrl" =>
        /\ (isValidUrl(call.input[1]) /\ Len(call.result) = 2) =>
              call.result[2] = call.result[1]
        /\ ~isValidUrl(call.input[1]) =>
              \A k \in DOMAIN call.result : call.result[k] = call.input[1]

\* A URL with a fragment was normalized, and then its normalized form.
C23_Witness ==
    /\ call.op = "normalizeUrl"
    /\ call.input[1] = "https://example.com/a#top"
    /\ call.result = <<"https://example.com/a", "https://example.com/a">>

\* The instant a date stands for, in hours, or NaNTime.
HoursOf(date) == IF date.kind = "date" THEN date.t ELSE ClockParse(date.s)

\* The calendar day in UTC of an instant in hours.
UtcDay(t) == t \div 24

\* C24: isSameDay(a, b) is true exactly when both dates parse and fall on the
\* same calendar day in UTC, whatever the local time zone of the process; it
\* is false when either date fails to parse.
C24_SameDayInUtc ==
    call.op = "isSameDay" =>
        call.result[1] =
            (/\ HoursOf(call.input[1]) # NaNTime
             /\ HoursOf(call.input[2]) # NaNTime
             /\ UtcDay(HoursOf(call.input[1])) = UtcDay(HoursOf(call.input[2])))

\* ---------------------------------------------------------- statistics
\* The records of the store with at least one entry in the named list.
WithSome(records, list) ==
    {k \in DOMAIN records : records[k][list] # <<>> /\ records[k][list][1] # <<>>}

\* The number of entries the records carry in the named list.
TotalOf(records, list) ==
    SumSeq([k \in DOMAIN records |->
              IF records[k][list] = <<>> THEN 0 ELSE Len(records[k][list][1])])

\* The size estimated for one record; emptyCounts tells whether a title or
\* lastmod that is the empty string counts as present.
EstimateOf(record, emptyCounts) ==
    150 + Len(record.loc)
    + (IF HasField(record.title, emptyCounts) THEN 15 + Len(record.title.s) ELSE 0)
    + (IF HasField(record.lastmod, emptyCounts) THEN 30 ELSE 0)
    + 200 * TotalOf(<<record>>, "images")
    + 500 * TotalOf(<<record>>, "videos")
    + 100 * TotalOf(<<record>>, "translations")
    + 100 * TotalOf(<<record>>, "alternates")
    + (IF record.googlenews # <<>> THEN 300 ELSE 0)

\* The statistics the sentence describes for the records of a store.
StatsOf(records, emptyCounts) ==
    [urls |-> Len(records),
     withImages |-> Cardinality(WithSome(records, "images")),
     withVideos |-> Cardinality(WithSome(records, "videos")),
     withTranslations |-> Cardinality(WithSome(records, "translations")),
     withAlternates |-> Cardinality(WithSome(records, "alternates")),
     withGoogleNews |-> Cardinality({k \in DOMAIN records :
                                       records[k].googlenews # <<>>}),
     totalImages |-> TotalOf(records, "images"),
     totalVideos |-> TotalOf(records, "videos"),
     estimatedSize |->
         500 + SumSeq([k \in DOMAIN records |-> EstimateOf(records[k], emptyCounts)])]

\* getStats left the store as it was.
StatsReadOnly == Content(items, heap) = call.pre /\ config = call.cfg

\* C25 as stated: getStats changes nothing and reports the counts and sums of
\* the records, with an estimated size that adds 15 plus the title's length
\* for a record that has a title and 30 for one that has a lastmod.
C25_StatsCountPresentFields ==
    call.op = "getStats" =>
        StatsReadOnly /\ call.result[1] = StatsOf(call.pre, TRUE)

\* C25: getStats changes nothing and reports the counts and sums of the
\* records, with an estimated size that adds 15 plus the title's length for a
\* record whose title is not empty and 30 for one whose lastmod is not empty.
C25_Stats ==
    call.op = "getStats" =>
        StatsReadOnly /\ call.result[1] = StatsOf(call.pre, FALSE)

\* Statistics of a store with a full record and one whose lists are empty.
C25_Witness ==
    /\ call.op = "getStats"
    /\ Len(call.pre) = 2
    /\ call.result[1].withImages = 1
    /\ call.result[1].totalImages = 2
    /\ call.result[1].withAlternates = 1
    /\ call.result[1].withGoogleNews = 1
    /\ \E k \in DOMAIN call.pre : call.pre[k].images = <<<<>>>>

\* ------------------------------------------------ validate() on a store
\* C26: a store that validates holds only valid records: after any sequence
\* of add, addItem, removeItems and clear, and however much later it is
\* called, validate() returns no error.
C26_ValidatingStoreStaysValid ==
    config.validate => ValidateAll(ModelGetItems(items), heap, now) = <<>>

\* validate() was called on a full validating store that holds a record
\* with a lastmod, after the clock has advanced to its end.
C26_Witness ==
    /\ call.op = "validate"
    /\ config.validate
    /\ call.result = <<>>
    /\ call.clock = MaxTime
    /\ Len(call.pre) = MaxStore
    /\ \E k \in DOMAIN call.pre : call.pre[k].lastmod # Undefined

\* ------------------------------------------------ the limit of an index
\* C27 as stated: under addSitemap, addSitemaps, resetSitemaps,
\* removeSitemaps, clear and setConfig the number of entries never exceeds
\* the limit currently configured.
C27_CountWithinLimit == getSitemapCount <= idxConfig.maxSitemaps

\* C27: the number of entries exceeds the limit currently configured only
\* after setConfig has lowered the limit below it, and while it does no
\* operation adds an entry.
C27_CountWithinLimitUnlessLowered ==
    getSitemapCount > idxConfig.maxSitemaps =>
        /\ getSitemapCount <= Len(call.pre)
        /\ Len(call.pre) <= call.cfg.maxSitemaps => call.op = "setConfig"

\* addSitemaps was refused on an index whose limit setConfig had lowered
\* below its count.
C27_Witness ==
    /\ call.op = "addSitemaps"
    /\ call.threw
    /\ call.message = LimitMessage(idxConfig)
    /\ getSitemapCount = CfgMaxSitemaps
    /\ idxConfig.maxSitemaps < CfgMaxSitemaps

\* ------------------------------------------------ membership in an index
\* C28: once addSitemap(u) has succeeded, hasSitemap(u) is true for that
\* same u, also for a relative u that was resolved against the base URL and
\* for a u that carries a fragment.
C28_AddedIsFound ==
    (call.op = "addSitemap" /\ ~call.threw) => hasSitemap(call.input[1].loc)

\* ------------------------------------------------ the locations stored
\* A location in normal form: a valid absolute URL without a fragment that
\* normalizeUrl leaves as it is.
IsNormalized(loc) ==
    isValidUrl(loc) /\ URLParse(loc).hash = "" /\ normalizeUrl(loc) = loc

\* C29: with validation enabled every location add, addItem or addSitemap
\* stores is in normal form, a valid absolute URL without a fragment that
\* normalizeUrl maps to itself, also when it was resolved from a relative
\* input.
C29_StoredLocationsNormalized ==
    /\ config.validate =>
          \A k \in DOMAIN items : IsNormalized(heap[items[k]].loc)
    /\ idxConfig.validate =>
          \A k \in DOMAIN idxItems : IsNormalized(idxItems[k].loc)

\* ------------------------------------------------ replacing the entries
\* The entry addSitemap makes of the k-th element of a list.
EntryOf(list, k, cfg) == BuildIndexItem(list[k].loc, list[k].lastmod, cfg).item

\* The k-th element of a list is one addSitemap rejects when the elements
\* before it were all stored: its Date cannot be formatted, it fails
\* validation, or the limit is reached.
RejectedAt(list, k, cfg) ==
    \/ BuildIndexItem(list[k].loc, list[k].lastmod, cfg).threw
    \/ cfg.validate /\ validateSitemapItem(EntryOf(list, k, cfg)) # <<>>
    \/ k - 1 >= cfg.maxSitemaps

\* C30: resetSitemaps(list) discards every entry and then adds the elements
\* of the list one at a time.  When all are accepted the index holds exactly
\* the entries of the list, in order.  When element k is rejected the call
\* fails and the index holds exactly the elements before k, and none of the
\* entries it held before the call.
C30_ResetReplacesEntries ==
    call.op = "resetSitemaps" =>
        LET list == call.input[1]
        IN /\ ~call.threw =>
                 /\ \A k \in DOMAIN list : ~RejectedAt(list, k, call.cfg)
                 /\ idxItems = [k \in DOMAIN list |-> EntryOf(list, k, call.cfg)]
           /\ call.threw =>
                 \E k \in DOMAIN list :
                    /\ RejectedAt(list, k, call.cfg)
                    /\ \A j \in 1..(k - 1) : ~RejectedAt(list, j, call.cfg)
                    /\ idxItems = [j \in 1..(k - 1) |-> EntryOf(list, j, call.cfg)]

\* resetSitemaps failed at its second element on an index that held other
\* entries: the first element is all that is left.
C30_Witness ==
    /\ call.op = "resetSitemaps"
    /\ call.threw
    /\ Len(call.input[1]) = 2
    /\ Len(idxItems) = 1
    /\ call.pre # <<>>
    /\ \A j \in DOMAIN call.pre : call.pre[j] # idxItems[1]

====
